---- MODULE Spec2Model ----
(***************************************************************************)
(* EchoVR texture editor (src/EVR_texture_editor.py): the staging of a     *)
(* replacement texture with its size-patched companion descriptor          *)
(* (TextureReplacer), the headset re-encoding (ASTCTools.encode_texture,   *)
(* pad_to_size), the DDS header parser (DDSHandler.get_dds_info) and the   *)
(* preview loader (TextureLoader, ASTCTools.decode_with_config and the     *)
(* block-size search), and the threads of the viewer                       *)
(* (EchoVRTextureViewer): the Tk main thread, the worker threads its        *)
(* handlers start, the external processes they wait for and the callbacks  *)
(* the workers post with root.after.                                       *)
(*                                                                         *)
(* Files are byte sequences, a file system is a function from paths to     *)
(* files.  A Python int that may exceed TLC's 32-bit range (a requested    *)
(* size, a u32 header field) is kept as two base-65536 limbs [hi, lo],     *)
(* value hi * 65536 + lo; it fits a u32 iff hi <= 65535.                   *)
(***************************************************************************)
EXTENDS Integers, Sequences, FiniteSets, TLC

VARIABLES
    fs,             \* the file system: path -> file
    DECODE_CACHE,   \* module-level memo: stem -> decode parameters
    mapping,        \* texture_mapping.json as loaded: stem -> {width, height}
    astcenc_path,   \* TRUE iff get_astcenc_path() finds an encoder
    is_quest_textures, \* which platform's tree is open
    current_texture,   \* the texture selected in the list, the one replaced
    result,         \* the last stage call: its inputs and what it returned
    encoder,        \* the last stage call's encoder invocation, if any
    dds_file,       \* the file handed to get_dds_info
    dds_made,       \* the fields that file was built from
    dds_info,       \* what get_dds_info returned
    loads,          \* the last two load_texture calls, the older one first
    decoder,        \* what the astcenc decoder does with the selected file
    threads,        \* thread id -> what the thread is executing
    after,          \* the callbacks posted with root.after(0, ...), oldest first
    gui             \* the viewer's fields and canvases

vars == <<fs, DECODE_CACHE, mapping, astcenc_path, is_quest_textures, current_texture, result, encoder, dds_file, dds_made, dds_info, loads, decoder, threads, after, gui>>

stageVars == <<fs, DECODE_CACHE, mapping, astcenc_path, is_quest_textures, current_texture, result, encoder>>
ddsVars == <<dds_file, dds_made, dds_info>>
loadVars == <<loads, decoder>>
uiVars == <<threads, after, gui>>

-----------------------------------------------------------------------------
(* Integers wider than TLC's: two base-65536 limbs.                        *)

LIMB == 256 * 256

\* the Python int n (0 <= n < 2^31) as limbs
FromNat(n) == [hi |-> n \div LIMB, lo |-> n % LIMB]

\* the limbs of hi * 65536 + lo
Big(h, l) == [hi |-> h, lo |-> l]

FitsU32(n) == n.hi >= 0 /\ n.hi < LIMB /\ n.lo >= 0 /\ n.lo < LIMB

\* struct.pack('<I', n): four bytes, least significant first; struct.error
\* (ok = FALSE) when n is no unsigned 32-bit value
StructPackI(n) ==
    IF FitsU32(n)
    THEN [ok |-> TRUE,
          bytes |-> <<n.lo % 256, n.lo \div 256, n.hi % 256, n.hi \div 256>>]
    ELSE [ok |-> FALSE, bytes |-> <<>>]

\* struct.unpack('<I', b)[0] of four bytes
StructUnpackI(b) == [hi |-> b[3] + 256 * b[4], lo |-> b[1] + 256 * b[2]]

\* Python's data[a:b] (0-based, half open, clipped to the length)
Slice(data, a, b) ==
    LET e == IF b < Len(data) THEN b ELSE Len(data)
    IN  IF a >= e THEN <<>> ELSE SubSeq(data, a + 1, e)

\* Python's data[a:b] = bytes on a bytearray
SliceAssign(data, a, b, bytes) ==
    Slice(data, 0, a) \o bytes \o Slice(data, b, Len(data))

Zeros(n) == [i \in 1..n |-> 0]

\* F applied to the value of v, v being evaluated once
Bind(v, F(_)) == CHOOSE y \in {F(x) : x \in {v}} : TRUE

\* test content: n bytes that depend on their position and on a seed
Pattern(n, seed) == [i \in 1..n |-> (seed + 7 * i) % 256]

-----------------------------------------------------------------------------------------------------------------------------------------------------
(* Files and paths.                                                        *)

NoFile == [exists |-> FALSE, data |-> <<>>, pad |-> 0]
File(bytes) == [exists |-> TRUE, data |-> bytes, pad |-> 0]

\* a file of n zero bytes, kept as a count: a file's content is its data
\* followed by pad zero bytes (pad is 0 for every file whose bytes are read)
ZeroFile(n) == [exists |-> TRUE, data |-> <<>>, pad |-> n]

\* a file name: stem (base and an optional suffix token such as "_d") and
\* extension; os.path.splitext(name)[0] is its stem
Name(b, s, e) == [base |-> b, suffix |-> s, ext |-> e]
Stem(name) == [base |-> name.base, suffix |-> name.suffix]

\* the textures of the extracted tree
Names == {Name("rock", "_d", ""), Name("rock", "", "")}

\* the replacement files the user can pick
ReplacementNames == {Name("new", "", ".img"), Name("other", "", ".img")}

PCVR_TEXTURES == "-4707359568332879775"
PCVR_CORRESPONDING == "5353709876897953952"
QUEST_TEXTURES == "5231972605540061417"
QUEST_CORRESPONDING == "-2094201140079393352"

\* a path: the directory, a sequence of components, and the file name
Path(dir, name) == [dir |-> dir, name |-> name]
\* os.path.join(folder, c1, ..., cn) of directory components
Join(folder, comps) == folder \o comps
\* os.path.basename(path)
Basename(path) == path.name

OutputFolder == <<"output">>
PcvrInputFolder == <<"input-pcvr">>
QuestInputFolder == <<"input-quest">>
UserFolder == <<"user">>
\* os.path.join(tempfile.gettempdir(), f"encoded_{texture_name}")
\* mutant: the encoder's output is written over the original texture
EncodedTemp_InPlace(texture_name) == Path(Join(OutputFolder, <<QUEST_TEXTURES>>), texture_name)

EncodedTemp(texture_name) == Path(<<"tmp", "encoded_">>, texture_name)

Paths ==
    {Path(Join(OutputFolder, <<b>>), n) : b \in {PCVR_TEXTURES, PCVR_CORRESPONDING, QUEST_TEXTURES, QUEST_CORRESPONDING}, n \in Names}
    \cup {Path(Join(PcvrInputFolder, <<"0", b>>), n) : b \in {PCVR_TEXTURES, PCVR_CORRESPONDING}, n \in Names}
    \cup {Path(Join(QuestInputFolder, <<"0", b>>), n) : b \in {QUEST_TEXTURES, QUEST_CORRESPONDING}, n \in Names}
    \cup {EncodedTemp(n) : n \in Names}
    \cup {Path(UserFolder, n) : n \in ReplacementNames}

Exists(fsys, p) == p \in DOMAIN fsys /\ fsys[p].exists
GetSize(fsys, p) == Len(fsys[p].data) + fsys[p].pad
WriteBytes(fsys, p, bytes) == [fsys EXCEPT ![p] = File(bytes)]
Remove(fsys, p) == [fsys EXCEPT ![p] = NoFile]
\* shutil.copy2(src, dst) of an existing src
\* mutant: the copy appends to an existing destination
Copy2_Appends(fsys, src, dst) == [fsys EXCEPT ![dst] = File(fsys[dst].data \o fsys[src].data)]

Copy2(fsys, src, dst) == [fsys EXCEPT ![dst] = fsys[src]]

-----------------------------------------------------------------------------
(* TextureReplacer.hex_edit_file_size and the PC path.                     *)

SIZE_FIELD_START == 244
SIZE_FIELD_END == 248

\* mutant: the guard admits every record that reaches the field's first byte
LongEnough_Start(data) == Len(data) >= SIZE_FIELD_START

\* if len(data) >= 248
LongEnough(data) == Len(data) >= SIZE_FIELD_END

\* mutant: the patch lands one byte early
PatchSize_Shifted(data, file_size_bytes) == SliceAssign(data, SIZE_FIELD_START - 1, SIZE_FIELD_END - 1, file_size_bytes)

\* data[244:248] = file_size_bytes
PatchSize(data, file_size_bytes) == SliceAssign(data, SIZE_FIELD_START, SIZE_FIELD_END, file_size_bytes)

\* hex_edit_file_size(file_path, new_size): [ok, fs].  open() of a missing
\* file and struct.pack of a value that is no u32 raise before anything is
\* written; the except clause turns both into False.
HexEditFileSize(fsys, file_path, new_size) ==
    IF ~Exists(fsys, file_path) THEN [ok |-> FALSE, fs |-> fsys]
    ELSE LET data == fsys[file_path].data
             packed == StructPackI(new_size)
         IN  IF LongEnough(data)
             THEN IF packed.ok
                  THEN [ok |-> TRUE, fs |-> WriteBytes(fsys, file_path, PatchSize(data, packed.bytes))]
                  ELSE [ok |-> FALSE, fs |-> fsys]
             ELSE [ok |-> FALSE, fs |-> fsys]

NoEncoder == [invoked |-> FALSE, width |-> 0, height |-> 0, block_w |-> 0, block_h |-> 0, target_size |-> 0]

Returned(o, m, fsys) == [ok |-> o, msg |-> m, fs |-> fsys, enc |-> NoEncoder]

\* mutant: the PC path tolerates a missing descriptor, as the headset path does
PcvrNoCorresponding_Tolerant(fsys) == Returned(TRUE, "PCVR texture replaced (no corresponding file)", fsys)

\* else: return False, "Corresponding file not found"
PcvrNoCorresponding(fsys) == Returned(FALSE, "Corresponding file not found", fsys)

\* replace_pcvr_texture(output_folder, pcvr_input_folder,
\* original_texture_path, replacement_texture_path, replacement_size):
\* [ok, msg, fs]
ReplacePcvrTexture(fsys, output_folder, pcvr_input_folder, original_texture_path, replacement_texture_path, replacement_size) ==
    LET input_textures_folder == Join(pcvr_input_folder, <<"0", PCVR_TEXTURES>>)
        input_corresponding_folder == Join(pcvr_input_folder, <<"0", PCVR_CORRESPONDING>>)
        texture_name == Basename(original_texture_path)
        output_corresponding_file == Path(Join(output_folder, <<PCVR_CORRESPONDING>>), texture_name)
        input_texture_path == Path(input_textures_folder, texture_name)
        input_corresponding_path == Path(input_corresponding_folder, texture_name)
    IN  IF ~Exists(fsys, replacement_texture_path)
        THEN \* shutil.copy2 raises; caught by the outer except
             Returned(FALSE, "PCVR replacement error", fsys)
        ELSE
        LET fs1 == Copy2(fsys, replacement_texture_path, input_texture_path)
        IN  IF Exists(fs1, output_corresponding_file)
            THEN LET fs2 == Copy2(fs1, output_corresponding_file, input_corresponding_path)
                     edit == HexEditFileSize(fs2, input_corresponding_path, replacement_size)
                 IN  IF edit.ok
                     THEN Returned(TRUE, "PCVR texture replaced. Size updated", edit.fs)
                     ELSE Returned(FALSE, "Failed to update file size", edit.fs)
            ELSE PcvrNoCorresponding(fs1)

-----------------------------------------------------------------------------
(* ASTCTools: the encoder side.                                            *)

None == [found |-> FALSE]
Found(v) == [found |-> TRUE, value |-> v]

SUFFIXES == {"_d", "_n", "_s", "_e", "_a", "_r", "_m", "_h"}

\* find_texture_info(texture_name, mapping): the entry under the name, else
\* under the name with its suffix token stripped
FindTextureInfo(texture_name, map) ==
    IF texture_name \in DOMAIN map THEN Found(map[texture_name])
    ELSE IF texture_name.suffix \in SUFFIXES /\ [base |-> texture_name.base, suffix |-> ""] \in DOMAIN map
         THEN Found(map[[base |-> texture_name.base, suffix |-> ""]])
         ELSE None

ASTC_MAGIC == <<19, 171, 161, 92>>
ASTC_HEADER_LEN == 16

\* struct.pack("<I", x)[:3] of a small x
Dim3(x) == <<x % 256, (x \div 256) % 256, (x \div LIMB) % 256>>

\* the wrapper header: magic, block dimensions, image dimensions
AstcHeader(width, height, block_w, block_h) == ASTC_MAGIC \o <<block_w, block_h, 1>> \o Dim3(width) \o Dim3(height) \o Dim3(1)

\* what the external encoder can do: fail, time out, or write `len` bytes of
\* block data, with or without its own wrapper header
EncoderOutcomes(maxLen) == {[kind |-> k, header |-> FALSE, len |-> 0] : k \in {"error", "timeout"}} \cup {[kind |-> "ok", header |-> h, len |-> n] : h \in BOOLEAN, n \in 0..maxLen}

\* the bytes the encoder leaves in temp_astc
EncoderOutput(out, width, height, block_w, block_h) == IF out.header THEN AstcHeader(width, height, block_w, block_h) \o Pattern(out.len, 40) ELSE Pattern(out.len, 40)

\* mutant: pads, but never truncates
PadToSize_NoTruncate(data, target_size) == IF Len(data) < target_size THEN data \o Zeros(target_size - Len(data)) ELSE data

\* pad_to_size(data, target_size)
PadToSize(data, target_size) ==
    LET current_size == Len(data)
    IN  IF current_size < target_size THEN data \o Zeros(target_size - current_size)
        ELSE IF current_size > target_size THEN Slice(data, 0, target_size)
        ELSE data

\* the encoder's wrapper header is stripped when the magic leads more than
\* 16 bytes
StripHeader(astc_data) == IF Len(astc_data) > ASTC_HEADER_LEN /\ Slice(astc_data, 0, 4) = ASTC_MAGIC THEN Slice(astc_data, ASTC_HEADER_LEN, Len(astc_data)) ELSE astc_data

\* encode_texture(astcenc_path, input_png, output_file, width, height,
\* block_w, block_h, quality, target_size) when the encoder does `out`:
\* [ok, fs].  target_size = 0 is falsy: no padding then.
EncodeTexture(fsys, output_file, width, height, block_w, block_h, target_size, out) ==
    IF out.kind # "ok" THEN [ok |-> FALSE, fs |-> fsys]
    ELSE LET astc_data == EncoderOutput(out, width, height, block_w, block_h)
             raw_data == StripHeader(astc_data)
             sized == IF target_size # 0 /\ Len(raw_data) # target_size THEN PadToSize(raw_data, target_size) ELSE raw_data
         IN  [ok |-> TRUE, fs |-> WriteBytes(fsys, output_file, sized)]

EncoderCall(w, h, bw, bh, target) == [invoked |-> TRUE, width |-> w, height |-> h, block_w |-> bw, block_h |-> bh, target_size |-> target]

\* encode_with_cache(astcenc_path, input_png, output_file, texture_name,
\* quality): [ok, fs, enc]
EncodeWithCache(fsys, cache, output_file, texture_name, out) ==
    IF texture_name \notin DOMAIN cache THEN [ok |-> FALSE, fs |-> fsys, enc |-> NoEncoder]
    ELSE LET config == cache[texture_name]
             e == EncodeTexture(fsys, output_file, config.width, config.height, config.block_w, config.block_h, config.original_size, out)
         IN  [ok |-> e.ok, fs |-> e.fs, enc |-> EncoderCall(config.width, config.height, config.block_w, config.block_h, config.original_size)]

\* the fixed block size of the lookup-table branch
MAPPING_BLOCK == 8

\* mutant: the lookup table is preferred to the memo
UseMemo_MappingFirst(cache, map, texture_name_no_ext) == texture_name_no_ext \in DOMAIN cache /\ texture_name_no_ext \notin DOMAIN map

\* if texture_name_no_ext in DECODE_CACHE
UseMemo(cache, map, texture_name_no_ext) == texture_name_no_ext \in DOMAIN cache

\* mutant: the headset path refuses a missing descriptor, as the PC path does
QuestNoCorresponding_Refused(fsys, temp_output, enc) == [ok |-> FALSE, msg |-> "Corresponding file not found", fs |-> Remove(fsys, temp_output), enc |-> enc]

\* else: os.remove(temp_output);
\* return True, "Quest texture replaced (no corresponding file)"
QuestNoCorresponding(fsys, temp_output, enc) == [ok |-> TRUE, msg |-> "Quest texture replaced (no corresponding file)", fs |-> Remove(fsys, temp_output), enc |-> enc]

\* the rest of replace_quest_texture once temp_output holds the encoded
\* texture: pad or truncate to the original size, stage it, copy and patch
\* the descriptor
StageEncoded(fsys, output_folder, input_textures_folder, input_corresponding_folder, texture_name, temp_output, original_size, enc) ==
    LET encoded_size == GetSize(fsys, temp_output)
        fs1 == IF encoded_size # original_size THEN WriteBytes(fsys, temp_output, PadToSize(fsys[temp_output].data, original_size)) ELSE fsys
        input_texture_path == Path(input_textures_folder, texture_name)
        fs2 == Copy2(fs1, temp_output, input_texture_path)
        final_size == GetSize(fs2, temp_output)
        output_corresponding_file == Path(Join(output_folder, <<QUEST_CORRESPONDING>>), texture_name)
        input_corresponding_path == Path(input_corresponding_folder, texture_name)
    IN  IF Exists(fs2, output_corresponding_file)
        THEN LET fs3 == Copy2(fs2, output_corresponding_file, input_corresponding_path)
                 edit == HexEditFileSize(fs3, input_corresponding_path, FromNat(final_size))
             IN  IF edit.ok
                 THEN [ok |-> TRUE, msg |-> "Quest texture replaced. Size updated", fs |-> Remove(edit.fs, temp_output), enc |-> enc]
                 ELSE [ok |-> FALSE, msg |-> "Failed to update file size", fs |-> edit.fs, enc |-> enc]
        ELSE QuestNoCorresponding(fs2, temp_output, enc)

\* replace_quest_texture(output_folder, quest_input_folder,
\* original_texture_path, replacement_texture_path, texture_cache) with the
\* memo `cache`, the loaded lookup table `map`, astcenc found or not, and the
\* encoder doing `out`: [ok, msg, fs, enc]
ReplaceQuestTexture(fsys, cache, map, astcenc, output_folder, quest_input_folder, original_texture_path, replacement_texture_path, out) ==
    LET input_textures_folder == Join(quest_input_folder, <<"0", QUEST_TEXTURES>>)
        input_corresponding_folder == Join(quest_input_folder, <<"0", QUEST_CORRESPONDING>>)
        texture_name == Basename(original_texture_path)
        temp_output == EncodedTemp(texture_name)
        texture_name_no_ext == Stem(texture_name)
    IN  IF ~Exists(fsys, original_texture_path)
        THEN \* os.path.getsize raises; caught by the outer except
             Returned(FALSE, "Quest replacement error", fsys)
        ELSE
        LET original_size == GetSize(fsys, original_texture_path)
        IN  IF ~astcenc THEN Returned(FALSE, "astcenc not found", fsys)
            ELSE IF UseMemo(cache, map, texture_name_no_ext)
            THEN LET e == EncodeWithCache(fsys, cache, temp_output, texture_name_no_ext, out)
                 IN  IF ~e.ok THEN [ok |-> FALSE, msg |-> "Failed to encode texture", fs |-> e.fs, enc |-> e.enc]
                     ELSE StageEncoded(e.fs, output_folder, input_textures_folder, input_corresponding_folder, texture_name, temp_output, original_size, e.enc)
            ELSE IF DOMAIN map # {}
            THEN IF texture_name_no_ext \notin DOMAIN map
                 THEN \* mapping[texture_name_no_ext] raises KeyError; caught by
                      \* the outer except
                      Returned(FALSE, "Quest replacement error", fsys)
                 ELSE LET width == map[texture_name_no_ext].width
                          height == map[texture_name_no_ext].height
                          e == EncodeTexture(fsys, temp_output, width, height, MAPPING_BLOCK, MAPPING_BLOCK, original_size, out)
                          enc == EncoderCall(width, height, MAPPING_BLOCK, MAPPING_BLOCK, original_size)
                      IN  IF ~e.ok THEN [ok |-> FALSE, msg |-> "Failed to encode texture", fs |-> e.fs, enc |-> enc]
                          ELSE StageEncoded(e.fs, output_folder, input_textures_folder, input_corresponding_folder, texture_name, temp_output, original_size, enc)
            ELSE Returned(FALSE, "No encoding configuration found", fsys)

-----------------------------------------------------------------------------
(* DDSHandler.get_dds_info.                                                *)

DDS_MAGIC == <<68, 68, 83, 32>>
DXT1 == <<68, 88, 84, 49>>
DXT3 == <<68, 88, 84, 51>>
DXT5 == <<68, 88, 84, 53>>
DX10 == <<68, 88, 49, 48>>

DDS_HEADER_LEN == 124
DX10_HEADER_LEN == 20

Raised == [found |-> FALSE, raised |-> TRUE]

\* a format name: literal text, then the numbers formatted into it
Text(t) == [text |-> t, numbers |-> <<>>]

\* DXGI_FORMAT.get(format_code, f"DXGI Format {format_code}")
DxgiFormatName(format_code) ==
    IF format_code = Big(0, 0) THEN Text("DXGI_FORMAT_UNKNOWN")
    ELSE IF format_code = Big(0, 71) THEN Text("DXGI_FORMAT_BC1_UNORM")
    ELSE IF format_code = Big(0, 77) THEN Text("DXGI_FORMAT_BC3_UNORM")
    ELSE IF format_code = Big(0, 80) THEN Text("DXGI_FORMAT_BC4_UNORM")
    ELSE IF format_code = Big(0, 83) THEN Text("DXGI_FORMAT_BC5_UNORM")
    ELSE [text |-> "DXGI Format ", numbers |-> <<format_code>>]

\* mutant: one code of the denylist is forgotten
IsProblematicCode_Short(format_code) == format_code \in {Big(0, 26), Big(0, 72)}

\* if format_code in [26, 72, 78]
IsProblematicCode(format_code) == format_code \in {Big(0, 26), Big(0, 72), Big(0, 78)}

\* mutant: off by one, a header one byte short is parsed
HeaderTooShort_OffByOne(header) == Len(header) < DDS_HEADER_LEN - 1

\* if len(header) < 124
HeaderTooShort(header) == Len(header) < DDS_HEADER_LEN

\* pixel_format_flags & 0x40
RgbFlag(pixel_format_flags) == (pixel_format_flags.lo \div 64) % 2 = 1

\* the body of get_dds_info's try block: the info, None, or Raised when
\* open() fails
GetDdsInfoBody(file) ==
    IF ~file.exists THEN Raised
    ELSE LET data == file.data
             signature == Slice(data, 0, 4)
             header == Slice(data, 4, 4 + DDS_HEADER_LEN)
         IN  IF signature # DDS_MAGIC THEN None
             ELSE IF HeaderTooShort(header) THEN None
             ELSE LET height == StructUnpackI(Slice(header, 8, 12))
                      width == StructUnpackI(Slice(header, 12, 16))
                      mipmap_count == StructUnpackI(Slice(header, 24, 28))
                      pixel_format_flags == StructUnpackI(Slice(header, 76, 80))
                      four_cc == Slice(header, 80, 84)
                      extended_header == Slice(data, 4 + DDS_HEADER_LEN, 4 + DDS_HEADER_LEN + DX10_HEADER_LEN)
                      has_code == four_cc = DX10 /\ Len(extended_header) >= DX10_HEADER_LEN
                      code == StructUnpackI(Slice(extended_header, 0, 4))
                      format_name ==
                          IF four_cc = DXT1 THEN Text("BC1/DXT1")
                          ELSE IF four_cc = DXT3 THEN Text("BC2/DXT3")
                          ELSE IF four_cc = DXT5 THEN Text("BC3/DXT5")
                          ELSE IF four_cc = DX10 THEN (IF has_code THEN DxgiFormatName(code) ELSE Text("Unknown"))
                          ELSE IF RgbFlag(pixel_format_flags) THEN Text("RGB")
                          ELSE Text("Unknown")
                  IN  Found([width |-> width,
                             height |-> height,
                             mipmaps |-> mipmap_count,
                             format |-> format_name,
                             file_size |-> Len(data),
                             format_code |-> IF has_code THEN Found(code) ELSE None,
                             is_problematic |-> has_code /\ IsProblematicCode(code)])

\* get_dds_info(file_path): except Exception: return None
GetDdsInfo(file) == LET r == GetDdsInfoBody(file) IN IF r = Raised THEN None ELSE r

\* the fields a test file is built from
DefaultMade == [readable |-> TRUE, signature |-> DDS_MAGIC, header_len |-> DDS_HEADER_LEN, width |-> Big(0, 64), height |-> Big(0, 64), mipmaps |-> Big(0, 1), pixel_format_flags |-> Big(0, 4), four_cc |-> DXT1, ext_len |-> 0, format_code |-> Big(0, 0)]

\* the 124 header bytes of a container, field by field
DdsHeader(m) == StructPackI(Big(0, 124)).bytes \o StructPackI(Big(2, 4111)).bytes \o StructPackI(m.height).bytes \o StructPackI(m.width).bytes \o Zeros(8) \o StructPackI(m.mipmaps).bytes \o Zeros(44) \o StructPackI(Big(0, 32)).bytes \o StructPackI(m.pixel_format_flags).bytes \o m.four_cc \o Zeros(20) \o StructPackI(Big(0, 4096)).bytes \o Zeros(16)

\* the 20 bytes of a DX10 extension block
Dx10Header(m) == StructPackI(m.format_code).bytes \o StructPackI(Big(0, 3)).bytes \o Zeros(4) \o StructPackI(Big(0, 1)).bytes \o Zeros(4)

\* the test file: signature, as much of the header as header_len, as much of
\* the extension block as ext_len, eight bytes of pixel data after a whole one
MadeFile(m) ==
    IF ~m.readable THEN NoFile
    ELSE File(m.signature \o Slice(DdsHeader(m), 0, m.header_len) \o Slice(Dx10Header(m), 0, m.ext_len) \o (IF m.ext_len = DX10_HEADER_LEN \/ (m.header_len = DDS_HEADER_LEN /\ m.four_cc # DX10) THEN Pattern(8, 1) ELSE <<>>))

NotCalled == [called |-> FALSE, ret |-> None]

\* no process: the thread is not inside subprocess.run
NoProc == [tool |-> "", timeout |-> None, state |-> "none"]

NoReturn == [done |-> FALSE, ok |-> FALSE, msg |-> ""]

\* no texture, no file
NoName == Name("", "", "")

\* a thread that executes nothing.  arg: the file_path a replacement loader
\* was started with; target: the path load_texture was called with;
\* selected: the texture that was selected when the thread was started
Idle == [op |-> "idle", pc |-> "", n |-> 0, count |-> 0, errors |-> 0, output_ok |-> FALSE, proc |-> NoProc, ret |-> NoReturn, arg |-> NoName, target |-> NoName, selected |-> NoName]

\* the Tk main thread and the worker threads alive at one time
ThreadIds == {"main", "w1", "w2"}

NoThreads == [t \in ThreadIds |-> Idle]

\* a canvas showing a placeholder text
Placeholder(text) == [kind |-> "placeholder", text |-> text, of |-> NoName]

\* the viewer after __init__ and load_textures
NoGui == [budget |-> 0, pushes |-> 0, replacement_texture |-> NoName, replacement_info |-> None, original_info |-> None, original_canvas |-> Placeholder("Select a texture to view"), replacement_canvas |-> Placeholder("")]

\* a decoder that accepts nothing
NoDecoder == [accept |-> {}, accept_kind |-> "png", reject |-> "nonzero"]

-----------------------------------------------------------------------------
(* The staging state machine: an extracted tree, and stage calls on it.    *)

MaxRawLen == 2
MaxEncLen == 3

\* lengths of the companion descriptor the extracted tree may hold
DescriptorLengths == {0, SIZE_FIELD_START, SIZE_FIELD_END - 1, SIZE_FIELD_END, 255, 256, 257}

DescriptorOptions == {NoFile} \cup {File(Pattern(n, 3)) : n \in DescriptorLengths}

\* the sizes a caller may request: 0, 12345, 2^16, 2^32 - 1, and 2^32
RequestedSizes == {Big(0, 0), Big(0, 12345), Big(1, 0), Big(LIMB - 1, LIMB - 1), Big(LIMB, 0)}

RockD == Name("rock", "_d", "")
Rock == Name("rock", "", "")

EmptyMap == [x \in {} |-> 0]
MemoEntry(size) == [width |-> 64, height |-> 32, block_w |-> 4, block_h |-> 4, original_size |-> size]
\* the memo: empty, or an entry for the first texture (recorded at its present
\* size or at another one), or entries for both
MemoOptions(sizes) == {EmptyMap} \cup {[k \in {Stem(RockD)} |-> MemoEntry(sz)] : sz \in sizes} \cup {[k \in {Stem(RockD), Stem(Rock)} |-> MemoEntry(1)]}
\* texture_mapping.json: missing or empty, or entries for one or both textures
MappingOptions == {EmptyMap} \cup {[k \in ks |-> [width |-> 128, height |-> 64]] : ks \in {{Stem(Rock)}, {Stem(RockD)}, {Stem(Rock), Stem(RockD)}}}

NoResult == [op |-> "none", texture |-> RockD, replacement |-> Name("new", "", ".img"), size |-> Big(0, 0), out |-> [kind |-> "error", header |-> FALSE, len |-> 0], ok |-> FALSE, msg |-> ""]

\* the user's replacement files, which exist
UserFiles == [p \in Paths |-> IF p = Path(UserFolder, Name("new", "", ".img")) THEN File(Pattern(2, 5)) ELSE IF p = Path(UserFolder, Name("other", "", ".img")) THEN File(Pattern(3, 9)) ELSE NoFile]

PcvrTree(d1, d2) == [UserFiles EXCEPT
    ![Path(Join(OutputFolder, <<PCVR_TEXTURES>>), RockD)] = File(Pattern(4, 11)),
    ![Path(Join(OutputFolder, <<PCVR_TEXTURES>>), Rock)] = File(Pattern(4, 12)),
    ![Path(Join(OutputFolder, <<PCVR_CORRESPONDING>>), RockD)] = d1,
    ![Path(Join(OutputFolder, <<PCVR_CORRESPONDING>>), Rock)] = d2]

QuestTree(len1, d1, d2) == [UserFiles EXCEPT
    ![Path(Join(OutputFolder, <<QUEST_TEXTURES>>), RockD)] = File(Pattern(len1, 11)),
    ![Path(Join(OutputFolder, <<QUEST_TEXTURES>>), Rock)] = File(Pattern(1, 12)),
    ![Path(Join(OutputFolder, <<QUEST_CORRESPONDING>>), RockD)] = d1,
    ![Path(Join(OutputFolder, <<QUEST_CORRESPONDING>>), Rock)] = d2]

InitPcvr ==
    /\ is_quest_textures = FALSE
    /\ \E d1 \in DescriptorOptions, d2 \in {NoFile, File(Pattern(256, 100))} : fs = PcvrTree(d1, d2)
    /\ DECODE_CACHE = EmptyMap
    /\ mapping = EmptyMap
    /\ astcenc_path = FALSE

\* the headset tree: descriptor absent, too short for the field, just long
\* enough, or the full record
QuestDescriptorOptions == {NoFile} \cup {File(Pattern(n, 3)) : n \in {SIZE_FIELD_END - 1, SIZE_FIELD_END, 256}}

InitQuest ==
    /\ is_quest_textures = TRUE
    /\ \E len1 \in 0..MaxRawLen :
          /\ \E d1 \in QuestDescriptorOptions : fs = QuestTree(len1, d1, File(Pattern(256, 100)))
          /\ DECODE_CACHE \in MemoOptions({len1, 1})
    /\ mapping \in MappingOptions
    /\ astcenc_path \in BOOLEAN
    /\ ~astcenc_path => DECODE_CACHE = EmptyMap

\* A session: one platform's extracted tree with an empty staging tree, one
\* texture selected in the list; every stage call of the session replaces
\* the selected texture.  The first texture's descriptor, size and memo vary,
\* the second one's are fixed.
Init ==
    /\ InitPcvr \/ InitQuest
    /\ current_texture \in Names
    /\ result = NoResult
    /\ encoder = NoEncoder
    /\ dds_file = NoFile
    /\ dds_made = DefaultMade
    /\ dds_info = NotCalled
    /\ loads = <<>>
    /\ decoder = NoDecoder
    /\ threads = NoThreads
    /\ after = <<>>
    /\ gui = NoGui

\* replace_texture, the PC branch: one call of replace_pcvr_texture
ReplaceTexturePcvr ==
    /\ ~is_quest_textures
    /\ \E r \in ReplacementNames, size \in RequestedSizes :
          LET ret == ReplacePcvrTexture(fs, OutputFolder, PcvrInputFolder, Path(Join(OutputFolder, <<PCVR_TEXTURES>>), current_texture), Path(UserFolder, r), size)
          IN  /\ fs' = ret.fs
              /\ result' = [op |-> "pcvr", texture |-> current_texture, replacement |-> r, size |-> size, out |-> NoResult.out, ok |-> ret.ok, msg |-> ret.msg]
              /\ encoder' = ret.enc
    /\ UNCHANGED <<DECODE_CACHE, mapping, astcenc_path, is_quest_textures, current_texture, ddsVars, loadVars, uiVars>>

\* the image the user picked as the headset replacement
QuestReplacement == Name("new", "", ".img")

\* replace_texture, the headset branch: one call of replace_quest_texture
ReplaceTextureQuest ==
    /\ is_quest_textures
    /\ \E out \in EncoderOutcomes(MaxEncLen) :
          LET ret == ReplaceQuestTexture(fs, DECODE_CACHE, mapping, astcenc_path, OutputFolder, QuestInputFolder, Path(Join(OutputFolder, <<QUEST_TEXTURES>>), current_texture), Path(UserFolder, QuestReplacement), out)
          IN  /\ fs' = ret.fs
              /\ result' = [op |-> "quest", texture |-> current_texture, replacement |-> QuestReplacement, size |-> Big(0, 0), out |-> out, ok |-> ret.ok, msg |-> ret.msg]
              /\ encoder' = ret.enc
    /\ UNCHANGED <<DECODE_CACHE, mapping, astcenc_path, is_quest_textures, current_texture, ddsVars, loadVars, uiVars>>

Next == ReplaceTexturePcvr \/ ReplaceTextureQuest

Spec == Init /\ [][Next]_vars

-----------------------------------------------------------------------------
(* What the claims speak of, read off the state after a stage call.        *)

StagingRoot == IF is_quest_textures THEN QuestInputFolder ELSE PcvrInputFolder
TexturesBucket == IF is_quest_textures THEN QUEST_TEXTURES ELSE PCVR_TEXTURES
CorrespondingBucket == IF is_quest_textures THEN QUEST_CORRESPONDING ELSE PCVR_CORRESPONDING

StagedTexture == fs[Path(Join(StagingRoot, <<"0", TexturesBucket>>), result.texture)]
StagedDescriptor == fs[Path(Join(StagingRoot, <<"0", CorrespondingBucket>>), result.texture)]
OriginalTexture == fs[Path(Join(OutputFolder, <<TexturesBucket>>), result.texture)]
OriginalDescriptor == fs[Path(Join(OutputFolder, <<CorrespondingBucket>>), result.texture)]

\* bytes [244:248] of data are the little-endian u32 n
SizeFieldIs(data, n) == Len(data) >= 248 /\ data[245] + 256 * data[246] = n.lo /\ data[247] + 256 * data[248] = n.hi

\* data and orig agree at every offset outside [244:248]
SameOutsideSizeField(data, orig) == Len(data) = Len(orig) /\ \A i \in 1..Len(orig) : (i < 245 \/ i > 248) => data[i] = orig[i]

\* C1: a successful replace_pcvr_texture on a 256-byte companion descriptor
\* leaves a staged descriptor of 256 bytes that equals the original outside
\* [244:248] and holds the requested size, little-endian, in [244:248]; and
\* every request that fits a u32 succeeds on such a descriptor.
C1_PatchedDescriptor ==
    (result.op = "pcvr" /\ OriginalDescriptor.exists /\ Len(OriginalDescriptor.data) = 256) =>
        /\ result.ok =>
              /\ StagedDescriptor.exists
              /\ Len(StagedDescriptor.data) = 256
              /\ SameOutsideSizeField(StagedDescriptor.data, OriginalDescriptor.data)
              /\ SizeFieldIs(StagedDescriptor.data, result.size)
        /\ result.size.hi < 65536 => result.ok

C1_Witness == result.op = "pcvr" /\ result.ok /\ OriginalDescriptor.exists /\ Len(OriginalDescriptor.data) = 256 /\ result.size = Big(0, 12345) /\ StagedDescriptor.data # OriginalDescriptor.data

C3_CorrespondingFileNotFound ==
    (result.op = "pcvr" /\ ~OriginalDescriptor.exists) =>
        ~result.ok /\ result.msg = "Corresponding file not found" /\ ~StagedDescriptor.exists

C3_Witness == result.op = "pcvr" /\ ~OriginalDescriptor.exists /\ StagedTexture.exists

C5_NothingLeftAfterFailedPatch ==
    (result.op # "none" /\ result.msg = "Failed to update file size") =>
        ~StagedDescriptor.exists /\ ~StagedTexture.exists

\* the block data the encoder produced in the last call, its wrapper stripped
EncodedRaw == StripHeader(EncoderOutput(result.out, encoder.width, encoder.height, encoder.block_w, encoder.block_h))

C6_WitnessPadded == result.op = "quest" /\ result.ok /\ StagedDescriptor.exists /\ Len(EncodedRaw) < Len(OriginalTexture.data) /\ Len(EncodedRaw) > 0

\* C7: replace_quest_texture fails with "No encoding configuration found"
\* whenever the texture's base name has an entry neither in the memo nor in
\* the lookup table, an empty table or not.
C7_NoEncodingConfiguration ==
    (result.op = "quest" /\ astcenc_path /\ Stem(result.texture) \notin DOMAIN DECODE_CACHE /\ ~FindTextureInfo(Stem(result.texture), mapping).found) =>
        ~result.ok /\ result.msg = "No encoding configuration found"

\* C8: with a memo entry for the texture's base name the encoder is invoked
\* with that entry's width, height, block size and recorded size, whatever
\* the lookup table holds; without one, the lookup table's width and height
\* are used with block size 8x8 and the original file's present byte size.
C8_ParameterOrder ==
    (result.op = "quest" /\ astcenc_path) =>
        /\ Stem(result.texture) \in DOMAIN DECODE_CACHE =>
              /\ encoder.invoked
              /\ encoder.width = DECODE_CACHE[Stem(result.texture)].width
              /\ encoder.height = DECODE_CACHE[Stem(result.texture)].height
              /\ encoder.block_w = DECODE_CACHE[Stem(result.texture)].block_w
              /\ encoder.block_h = DECODE_CACHE[Stem(result.texture)].block_h
              /\ encoder.target_size = DECODE_CACHE[Stem(result.texture)].original_size
        /\ (Stem(result.texture) \notin DOMAIN DECODE_CACHE /\ encoder.invoked) =>
              /\ Stem(result.texture) \in DOMAIN mapping
              /\ encoder.width = mapping[Stem(result.texture)].width
              /\ encoder.height = mapping[Stem(result.texture)].height
              /\ encoder.block_w = 8
              /\ encoder.block_h = 8
              /\ encoder.target_size = Len(OriginalTexture.data)
        /\ (Stem(result.texture) \notin DOMAIN DECODE_CACHE /\ Stem(result.texture) \in DOMAIN mapping) => encoder.invoked

C8_Witness == result.op = "quest" /\ encoder.invoked /\ Stem(result.texture) \in DOMAIN DECODE_CACHE /\ Stem(result.texture) \in DOMAIN mapping /\ mapping[Stem(result.texture)].width # DECODE_CACHE[Stem(result.texture)].width

C8_WitnessMapping == result.op = "quest" /\ encoder.invoked /\ Stem(result.texture) \notin DOMAIN DECODE_CACHE /\ result.ok

\* C19: replace_pcvr_texture run again with the same staging root, original
\* texture, replacement file and size leaves every file as the first run
\* left it (the same staged raw file, the same patched descriptor) and
\* returns the same result.
C19_StagingIdempotent ==
    result.op = "pcvr" =>
        LET again == ReplacePcvrTexture(fs, OutputFolder, PcvrInputFolder, Path(Join(OutputFolder, <<PCVR_TEXTURES>>), result.texture), Path(UserFolder, result.replacement), result.size)
        IN  /\ again.fs = fs
            /\ again.ok = result.ok
            /\ again.msg = result.msg

C19_Witness == result.op = "pcvr" /\ result.ok /\ StagedTexture = fs[Path(UserFolder, result.replacement)] /\ SizeFieldIs(StagedDescriptor.data, result.size) /\ StagedDescriptor # OriginalDescriptor

C19_WitnessFailed == result.op = "pcvr" /\ ~result.ok /\ StagedTexture.exists /\ StagedDescriptor.exists

\* the roots a stage operation may write under
WritableRoots == {"input-pcvr", "input-quest", "tmp"}

\* C20: a stage call (replace_pcvr_texture or replace_quest_texture,
\* successful or failed) changes no file outside the staging trees and the
\* scratch directory; the files of the extracted tree, the original texture
\* and its descriptor among them, are the same before and after.
C20_ExtractedTreeUntouched == [][\A p \in DOMAIN fs : fs'[p] # fs[p] => p.dir[1] \in WritableRoots]_vars

C20_Witness == result.op = "quest" /\ result.ok /\ StagedTexture.exists /\ StagedDescriptor.exists /\ StagedDescriptor # OriginalDescriptor /\ OriginalTexture.exists /\ StagedTexture # OriginalTexture

C20_WitnessPcvrFailed == result.op = "pcvr" /\ ~result.ok /\ StagedTexture.exists /\ OriginalTexture.exists /\ StagedTexture # OriginalTexture

-----------------------------------------------------------------------------
(* get_dds_info applied to test files.                                     *)

\* signatures: the magic, a file of three bytes, a wrong fourth byte, empty
MadeSignatures == {DDS_MAGIC, <<68, 68, 83>>, <<68, 68, 83, 0>>, <<>>}

\* what get_dds_info is tried on: an unreadable file; files without the
\* magic; truncated headers; whole headers of every FourCC family, with the
\* extension block whole or cut short
MadeFiles ==
    {[DefaultMade EXCEPT !.readable = FALSE]}
    \cup {[DefaultMade EXCEPT !.signature = sg] : sg \in MadeSignatures}
    \cup {[DefaultMade EXCEPT !.header_len = n, !.four_cc = cc] : n \in {0, DDS_HEADER_LEN - 1}, cc \in {DXT1, DX10}}
    \cup {[DefaultMade EXCEPT !.width = wh[1], !.height = wh[2], !.mipmaps = mm, !.pixel_format_flags = fl, !.four_cc = cc] : wh \in {<<Big(0, 64), Big(0, 64)>>, <<Big(LIMB - 1, LIMB - 1), Big(1, 0)>>}, mm \in {Big(0, 1), Big(0, 9)}, fl \in {Big(0, 4), Big(0, 65)}, cc \in {DXT1, DXT3, DXT5, <<68, 88, 84, 50>>, Zeros(4)}}
    \cup {[DefaultMade EXCEPT !.four_cc = DX10, !.pixel_format_flags = fl, !.ext_len = n] : fl \in {Big(0, 4), Big(0, 65)}, n \in {0, DX10_HEADER_LEN - 1}}
    \cup {[DefaultMade EXCEPT !.four_cc = DX10, !.width = w, !.ext_len = DX10_HEADER_LEN, !.format_code = c] : w \in {Big(0, 64), Big(0, 2048)}, c \in {Big(0, 0), Big(0, 26), Big(0, 71), Big(0, 72), Big(0, 77), Big(0, 78), Big(0, 79), Big(1, 72), Big(LIMB - 1, LIMB - 1)}}

InitDds ==
    /\ dds_made \in MadeFiles
    /\ dds_file = MadeFile(dds_made)
    /\ dds_info = NotCalled
    /\ fs = UserFiles
    /\ DECODE_CACHE = EmptyMap
    /\ mapping = EmptyMap
    /\ astcenc_path = FALSE
    /\ is_quest_textures = FALSE
    /\ current_texture = RockD
    /\ result = NoResult
    /\ encoder = NoEncoder
    /\ loads = <<>>
    /\ decoder = NoDecoder
    /\ threads = NoThreads
    /\ after = <<>>
    /\ gui = NoGui

\* one call of get_dds_info on the file
CallGetDdsInfo ==
    /\ ~dds_info.called
    /\ dds_info' = [called |-> TRUE, ret |-> GetDdsInfo(dds_file)]
    /\ UNCHANGED <<dds_file, dds_made, stageVars, loadVars, uiVars>>

NextDds == CallGetDdsInfo

SpecDds == InitDds /\ [][NextDds]_vars

\* C9: get_dds_info returns None for every file whose first four bytes are
\* not "DDS " or that has fewer than 124 header bytes after them, and for an
\* unreadable file; it returns a descriptor otherwise, and never raises.
C9_NotAContainer ==
    dds_info.called =>
        /\ dds_info.ret # Raised
        /\ (~dds_made.readable \/ dds_made.signature # <<68, 68, 83, 32>> \/ dds_made.header_len < 124) => dds_info.ret = None
        /\ (dds_made.readable /\ dds_made.signature = <<68, 68, 83, 32>> /\ dds_made.header_len >= 124) =>
              /\ dds_info.ret.found
              /\ dds_info.ret.value.width = dds_made.width
              /\ dds_info.ret.value.height = dds_made.height

C9_Witness == dds_info.called /\ dds_made.readable /\ dds_made.signature = DDS_MAGIC /\ dds_made.header_len = 123 /\ dds_info.ret = None

C9_WitnessUnreadable == dds_info.called /\ ~dds_made.readable /\ dds_info.ret = None

\* C10: of a parsed container, is_problematic is true exactly when the
\* FourCC is "DX10" and the extension block's format code is 26, 72 or 78; a
\* DXT1, DXT3 or DXT5 container is never problematic (a 64x64 DXT1 file
\* parses to 64x64 "BC1/DXT1"), and a DX10 container of code 72 is.
C10_Problematic ==
    (dds_info.called /\ dds_info.ret.found) =>
        /\ dds_info.ret.value.is_problematic <=>
              /\ dds_made.four_cc = <<68, 88, 49, 48>>
              /\ dds_made.ext_len >= 20
              /\ dds_made.format_code.hi = 0
              /\ dds_made.format_code.lo \in {26, 72, 78}
        /\ (dds_made.four_cc = DXT1 /\ dds_made.width = Big(0, 64) /\ dds_made.height = Big(0, 64)) =>
              /\ dds_info.ret.value.width = Big(0, 64)
              /\ dds_info.ret.value.height = Big(0, 64)
              /\ dds_info.ret.value.format = Text("BC1/DXT1")
              /\ ~dds_info.ret.value.is_problematic

C10_Witness == dds_info.called /\ dds_info.ret.found /\ dds_made.four_cc = DX10 /\ dds_made.format_code = Big(0, 72) /\ dds_info.ret.value.is_problematic

C10_WitnessDxt1 == dds_info.called /\ dds_info.ret.found /\ dds_made.four_cc = DXT1 /\ dds_info.ret.value.width = Big(0, 64) /\ ~dds_info.ret.value.is_problematic

-----------------------------------------------------------------------------
(* The preview loader (TextureLoader): images, the preview cache, scratch  *)
(* files, and the PC decode route.                                         *)

PNG_MAGIC == <<137, 80, 78, 71>>

\* an image object: its mode and its pixel data
Image(mode, px) == [kind |-> "image", label |-> "", mode |-> mode, pixels |-> px]

\* DDSHandler.create_format_preview(256, 256, format_name, path)
CreateFormatPreview(format_name) == [kind |-> "placeholder", label |-> format_name, mode |-> "RGB", pixels |-> <<>>]

\* img.convert("RGBA")
ConvertRGBA(img) == [img EXCEPT !.mode = "RGBA"]

\* mutant: the last byte of the pixel data is not written
PngBytes_DropsLast(img) == PNG_MAGIC \o <<IF img.mode = "RGBA" THEN 6 ELSE 2>> \o SubSeq(img.pixels, 1, Len(img.pixels) - 1)

\* the bytes img.save(path) writes: signature, colour type (2 truecolour,
\* 6 truecolour with alpha), pixel data
PngBytes(img) == PNG_MAGIC \o <<IF img.mode = "RGBA" THEN 6 ELSE 2>> \o img.pixels

\* Image.open(path) of a preview or converter output: the image, or Raised
\* when the file is missing or is no PNG
ImageOpen(file) ==
    IF file.exists /\ Len(file.data) >= 5 /\ Slice(file.data, 0, 4) = PNG_MAGIC /\ file.data[5] \in {2, 6}
    THEN Found(Image(IF file.data[5] = 6 THEN "RGBA" ELSE "RGB", Slice(file.data, 5, Len(file.data))))
    ELSE Raised

\* Image.open(dds_path), the direct open of load_dds_texture: the image
\* library reads a container it supports (direct = "ok") and raises on any
\* other file; the pixels are what follows the 128 header bytes
OpenDds(file, direct) ==
    IF direct = "ok" /\ file.exists /\ Slice(file.data, 0, 4) = DDS_MAGIC
    THEN Found(Image("RGB", Slice(file.data, 4 + DDS_HEADER_LEN, Len(file.data))))
    ELSE Raised

\* what img.save(cache_path) may do
SaveOutcomes == {"ok", "fail", "partial"}

\* try: img.save(cache_path) except Exception: pass -- the preview is
\* written, or the save fails and leaves nothing or a cut-off file
ImgSave(fsys, cache_path, img, save) ==
    IF save = "ok" THEN WriteBytes(fsys, cache_path, PngBytes(img))
    ELSE IF save = "partial" THEN WriteBytes(fsys, cache_path, Slice(PngBytes(img), 0, 3))
    ELSE fsys

ScriptDir == <<"app">>
CACHE_DIR == "texture_cache"
TmpDir == <<"tmp">>

\* get_cache_path(texture_path): the base name with its extension replaced
GetCachePath(texture_path) == Path(Join(ScriptDir, <<CACHE_DIR>>), Name(Basename(texture_path).base, Basename(texture_path).suffix, ".png"))

\* a directory exists iff its own entry does
DirEntry == Name(".", "", "")
IsDir(fsys, dir) == Exists(fsys, Path(dir, DirEntry))

\* the names tempfile may hand out under one prefix
TempSuffixes == <<"0", "1", "2">>

\* tempfile.mkdtemp(prefix=...): a directory that does not exist yet
FreshDir(fsys, prefix) ==
    LET free == {i \in 1..Len(TempSuffixes) : ~IsDir(fsys, Join(TmpDir, <<prefix, TempSuffixes[i]>>))}
    IN  IF free = {} THEN None
        ELSE Found(Join(TmpDir, <<prefix, TempSuffixes[CHOOSE i \in free : \A j \in free : i <= j]>>))

Mkdir(fsys, dir) == WriteBytes(fsys, Path(dir, DirEntry), <<>>)

\* shutil.rmtree(dir, ignore_errors=True)
Rmtree(fsys, dir) == [p \in DOMAIN fsys |-> IF p.dir = dir THEN NoFile ELSE fsys[p]]

\* one step of a load_texture call, as the call's trace records it
Event(ev, outcome) == [ev |-> ev, outcome |-> outcome, forced |-> FALSE, input |-> <<>>, cfg |-> <<>>, accepted |-> FALSE, astc_left |-> FALSE, out_left |-> FALSE]

\* what a loader function hands back: the image, the file system and memo
\* it leaves, and the steps it took
Ret(img, fsys, cache, trace) == [img |-> img, fs |-> fsys, cache |-> cache, trace |-> trace]

TexconvExe == Path(ScriptDir, Name("texconv", "", ".exe"))

\* tempfile.NamedTemporaryFile(suffix=".dds", delete=False)
TempInput == Path(TmpDir, Name("tmpinput", "", ".dds"))

\* "key in fmt_str" for the format names get_dds_info produces
Contains(fmt_str, key) ==
    \/ fmt_str.text = key
    \/ <<fmt_str.text, key>> \in {<<"DXGI_FORMAT_BC1_UNORM", "DXGI_FORMAT_BC1">>, <<"DXGI_FORMAT_BC3_UNORM", "DXGI_FORMAT_BC3">>, <<"DXGI_FORMAT_BC4_UNORM", "DXGI_FORMAT_BC4">>, <<"DXGI_FORMAT_BC5_UNORM", "DXGI_FORMAT_BC5">>}

\* the format code of the synthesized extension block
SynthFormatCode(fmt_str) ==
    IF Contains(fmt_str, "DXGI_FORMAT_BC1") THEN 71
    ELSE IF Contains(fmt_str, "DXGI_FORMAT_BC3") THEN 77
    ELSE IF Contains(fmt_str, "DXGI_FORMAT_BC4") THEN 80
    ELSE IF Contains(fmt_str, "DXGI_FORMAT_BC5") THEN 83
    ELSE IF Contains(fmt_str, "DXGI_FORMAT_R11G11B10_FLOAT") THEN 26
    ELSE 71

\* mutant: height and width are written in each other's field
SynthHeader_Swapped(width, height, format_code) == LET m == [DefaultMade EXCEPT !.width = height, !.height = width, !.mipmaps = Big(0, 1), !.pixel_format_flags = Big(0, 4), !.four_cc = DX10, !.format_code = format_code] IN DDS_MAGIC \o DdsHeader(m) \o Dx10Header(m)

\* header + dx10_header of the scratch container: magic, the 124 header
\* bytes with FourCC "DX10", the 20 bytes of the extension block
SynthHeader(width, height, format_code) == LET m == [DefaultMade EXCEPT !.width = width, !.height = height, !.mipmaps = Big(0, 1), !.pixel_format_flags = Big(0, 4), !.four_cc = DX10, !.format_code = format_code] IN DDS_MAGIC \o DdsHeader(m) \o Dx10Header(m)

\* the scratch container written for headerless data: header, extension
\* block, the raw bytes
SynthContainer(info, raw_data) == SynthHeader(info.width, info.height, Big(0, SynthFormatCode(info.format))) \o raw_data

\* force_format: "R16G16B16A16_FLOAT" iff the format name holds
\* "DXGI_FORMAT_R11G11B10_FLOAT"
ForceFormat(info) == info.found /\ Contains(info.value.format, "DXGI_FORMAT_R11G11B10_FLOAT")

\* what subprocess.run of the converter may do: raise; exit non-zero; exit 0
\* without output; exit 0 with an output that is no image; exit 0 with a PNG
TexconvOutcomes == {"raise", "nonzero", "no_output", "bad_output", "ok"}

\* the PNG the converter makes of a container: the pixel data after the
\* header, and after the extension block of a DX10 container
TexconvOutput(container, tc) ==
    LET ext == IF Slice(container, 84, 88) = DX10 THEN DX10_HEADER_LEN ELSE 0
    IN  IF tc = "ok" THEN PngBytes(Image("RGB", Slice(container, 4 + DDS_HEADER_LEN + ext, Len(container))))
        ELSE <<0, 0, 0>>

\* mutant: the finally block forgets the output directory
TexconvFinally_InputOnly(r, temp_input, temp_dir) == [r EXCEPT !.fs = IF temp_input.found /\ Exists(r.fs, temp_input.value) THEN Remove(r.fs, temp_input.value) ELSE r.fs]

\* the finally block of load_with_texconv
TexconvFinally(r, temp_input, temp_dir) ==
    LET fs1 == IF temp_input.found /\ Exists(r.fs, temp_input.value) THEN Remove(r.fs, temp_input.value) ELSE r.fs
        fs2 == IF temp_dir.found /\ IsDir(fs1, temp_dir.value) THEN Rmtree(fs1, temp_dir.value) ELSE fs1
    IN  [r EXCEPT !.fs = fs2]

\* load_with_texconv once the converter has run: fs2 holds its output
AfterTexconv(fs2, cache, cache_path, env, run, temp_dir, converted_file) ==
    LET opened == ImageOpen(fs2[converted_file])
        img == ConvertRGBA(opened.value)
    IN  IF env.tc = "raise" THEN TexconvFinally(Ret(CreateFormatPreview("texconv error"), fs2, cache, <<run>>), Found(TempInput), Found(temp_dir))
        ELSE IF env.tc = "nonzero" THEN TexconvFinally(Ret(CreateFormatPreview("texconv error"), fs2, cache, <<run>>), Found(TempInput), Found(temp_dir))
        ELSE IF ~Exists(fs2, converted_file) THEN TexconvFinally(Ret(CreateFormatPreview("texconv failed"), fs2, cache, <<run>>), Found(TempInput), Found(temp_dir))
        ELSE IF ~opened.found THEN TexconvFinally(Ret(CreateFormatPreview("texconv error"), fs2, cache, <<run>>), Found(TempInput), Found(temp_dir))
        ELSE TexconvFinally(Ret(img, Rmtree(ImgSave(fs2, cache_path, img, env.save), temp_dir), cache, <<run>>), Found(TempInput), Found(temp_dir))

\* load_with_texconv from the subprocess on: temp_input holds the container
RunTexconv(fsys, cache, dds_path, cache_path, env) ==
    LET info == GetDdsInfo(fsys[dds_path])
        temp_dir == FreshDir(fsys, "texconv_")
        run == [Event("texconv", env.tc) EXCEPT !.forced = ForceFormat(info), !.input = fsys[TempInput].data]
        converted_file == Path(temp_dir.value, Name(Basename(TempInput).base, "", ".png"))
        fs1 == Mkdir(fsys, temp_dir.value)
        fs2 == IF env.tc \in {"bad_output", "ok"} THEN WriteBytes(fs1, converted_file, TexconvOutput(fsys[TempInput].data, env.tc)) ELSE fs1
    IN  IF ~temp_dir.found THEN TexconvFinally(Ret(CreateFormatPreview("texconv error"), fsys, cache, <<>>), Found(TempInput), None)
        ELSE Bind(fs2, LAMBDA f : Bind(run, LAMBDA ev : AfterTexconv(f, cache, cache_path, env, ev, temp_dir.value, converted_file)))

\* load_with_texconv(dds_path, cache_path)
LoadWithTexconv(fsys, cache, dds_path, cache_path, env) ==
    LET raw_data == fsys[dds_path].data
        is_dds == Slice(raw_data, 0, 4) = DDS_MAGIC
        fs1 == WriteBytes(fsys, TempInput, <<>>)
        info == GetDdsInfo(fsys[dds_path])
        called == Event("load_with_texconv", "")
        ret == IF ~Exists(fsys, TexconvExe) THEN Ret(CreateFormatPreview("Missing texconv.exe"), fsys, cache, <<>>)
               ELSE IF ~Exists(fsys, dds_path) THEN Ret(CreateFormatPreview("texconv error"), fsys, cache, <<>>)
               ELSE IF is_dds THEN RunTexconv(Copy2(fs1, dds_path, TempInput), cache, dds_path, cache_path, env)
               ELSE IF ~info.found THEN TexconvFinally(Ret(CreateFormatPreview("texconv error"), fs1, cache, <<>>), Found(TempInput), None)
               ELSE RunTexconv(WriteBytes(fs1, TempInput, SynthContainer(info.value, raw_data)), cache, dds_path, cache_path, env)
    IN  Bind(ret, LAMBDA r : [r EXCEPT !.trace = <<called>> \o r.trace])

\* mutant: every parsed container goes to the converter
RouteToTexconv_AllParsed(info) == info.found

\* if dds_info and dds_info.get("is_problematic", False)
RouteToTexconv(info) == info.found /\ info.value.is_problematic

\* load_dds_texture(dds_path, cache_path)
LoadDdsTexture(fsys, cache, dds_path, cache_path, env) ==
    LET info == GetDdsInfo(fsys[dds_path])
        opened == OpenDds(fsys[dds_path], env.direct)
    IN  IF RouteToTexconv(info) THEN LoadWithTexconv(fsys, cache, dds_path, cache_path, env)
        ELSE IF opened.found THEN Ret(opened.value, ImgSave(fsys, cache_path, opened.value, env.save), cache, <<Event("direct_open", "ok")>>)
        ELSE Bind(LoadWithTexconv(fsys, cache, dds_path, cache_path, env), LAMBDA fallback : [fallback EXCEPT !.trace = <<Event("direct_open", "raise")>> \o fallback.trace])

-----------------------------------------------------------------------------
(* The headset decode: decode_with_config and the block-size search.       *)

\* mutant: the first two block sizes change places
CommonBlockSizes_Swapped == <<<<8, 8>>, <<4, 4>>, <<6, 6>>, <<5, 5>>, <<10, 10>>, <<12, 12>>, <<5, 4>>, <<6, 5>>, <<8, 5>>, <<8, 6>>, <<10, 5>>, <<10, 6>>, <<10, 8>>>>

\* get_common_block_sizes()
CommonBlockSizes == <<<<4, 4>>, <<8, 8>>, <<6, 6>>, <<5, 5>>, <<10, 10>>, <<12, 12>>, <<5, 4>>, <<6, 5>>, <<8, 5>>, <<8, 6>>, <<10, 5>>, <<10, 6>>, <<10, 8>>>>

Configuration(w, h, bw, bh, desc) == [width |-> w, height |-> h, block_w |-> bw, block_h |-> bh, desc |-> desc]

\* the configurations of brute_force_decode
Configurations == <<Configuration(2048, 1024, 8, 8, "2Kx1K_8x8"), Configuration(2048, 1024, 6, 6, "2Kx1K_6x6"), Configuration(2048, 1024, 4, 4, "2Kx1K_4x4"), Configuration(1024, 512, 8, 8, "1Kx512_8x8"), Configuration(1024, 512, 6, 6, "1Kx512_6x6"), Configuration(1024, 512, 4, 4, "1Kx512_4x4"), Configuration(2048, 2048, 8, 8, "2K_square_8x8"), Configuration(1024, 1024, 8, 8, "1K_square_8x8")>>

\* calculate_astc_size(width, height, block_w, block_h)
CalculateAstcSize(width, height, block_w, block_h) == ((width + block_w - 1) \div block_w) * ((height + block_h - 1) \div block_h) * 16

Abs(x) == IF x < 0 THEN -x ELSE x

\* mutant: a file one byte further off still passes
SizeMismatch_Loose(expected_size, file_size) == Abs(expected_size - file_size) > 101

\* if abs(expected_size - file_size) > 100: continue
SizeMismatch(expected_size, file_size) == Abs(expected_size - file_size) > 100

\* tempfile.NamedTemporaryFile(suffix='.astc', delete=False)
TempAstc == Path(TmpDir, Name("tmpwrap", "", ".astc"))

\* What the decoder process does with one wrapped file: "png" (exit 0, a
\* PNG of more than 1000 bytes), "garbage" (exit 0, more than 1000 bytes
\* that are no image), "small" (exit 0, a PNG of exactly 1000 bytes),
\* "no_output" (exit 0, nothing written), "nonzero" and "nonzero_output"
\* (exit code not 0, without or with a partial output), "raise" and
\* "raise_output" (the 10 s timeout or an OSError, likewise).
RejectKinds == {"small", "no_output", "nonzero", "nonzero_output", "raise", "raise_output"}

\* the decoder is a function of the wrapped file: it accepts the
\* configurations of dec.accept and rejects every other one in one way
DecoderOutcome(dec, cfg) == IF cfg \in dec.accept THEN dec.accept_kind ELSE dec.reject

\* the bytes the decoder leaves in the output file
DecoderOutput(outcome, cfg) ==
    IF outcome = "png" THEN PngBytes(Image("RGB", Pattern(1000, cfg[1] + cfg[3])))
    ELSE IF outcome = "garbage" THEN Pattern(1001, cfg[3])
    ELSE IF outcome = "small" THEN PngBytes(Image("RGB", Pattern(995, cfg[3])))
    ELSE Pattern(3, 0)

\* wrap_raw_astc(raw_path, wrapped_path, width, height, block_width,
\* block_height): False when the raw file cannot be read
WrapRawAstc(fsys, raw_path, wrapped_path, width, height, block_width, block_height) ==
    IF Exists(fsys, raw_path) THEN [ok |-> TRUE, fs |-> [fsys EXCEPT ![wrapped_path] = [fsys[raw_path] EXCEPT !.data = AstcHeader(width, height, block_width, block_height) \o fsys[raw_path].data]]]
    ELSE [ok |-> FALSE, fs |-> fsys]

\* output_file.unlink() if output_file.exists()
UnlinkIfExists(fsys, p) == IF Exists(fsys, p) THEN Remove(fsys, p) ELSE fsys

\* mutant: the entry is written before the size of the output is tested
AfterDecoder_MemoBeforeTest(fs2, cache, output_file, outcome, cache_key, entry) ==
    IF outcome \in {"raise", "raise_output"} THEN [ok |-> FALSE, fs |-> UnlinkIfExists(fs2, output_file), cache |-> cache, outcome |-> outcome]
    ELSE IF outcome \in {"png", "garbage", "small", "no_output"} /\ Exists(fs2, output_file)
         THEN IF GetSize(fs2, output_file) > 1000
              THEN [ok |-> TRUE, fs |-> fs2, cache |-> [k \in DOMAIN cache \cup {cache_key} |-> IF k = cache_key THEN entry ELSE cache[k]], outcome |-> outcome]
              ELSE [ok |-> FALSE, fs |-> Remove(fs2, output_file), cache |-> [k \in DOMAIN cache \cup {cache_key} |-> IF k = cache_key THEN entry ELSE cache[k]], outcome |-> outcome]
    ELSE [ok |-> FALSE, fs |-> UnlinkIfExists(fs2, output_file), cache |-> cache, outcome |-> outcome]

\* decode_with_config once the decoder has run: fs2 holds its output
AfterDecoder(fs2, cache, output_file, outcome, cache_key, entry) ==
    IF outcome \in {"raise", "raise_output"} THEN [ok |-> FALSE, fs |-> UnlinkIfExists(fs2, output_file), cache |-> cache, outcome |-> outcome]
    ELSE IF outcome \in {"png", "garbage", "small", "no_output"} /\ Exists(fs2, output_file)
         THEN IF GetSize(fs2, output_file) > 1000
              THEN [ok |-> TRUE, fs |-> fs2, cache |-> [k \in DOMAIN cache \cup {cache_key} |-> IF k = cache_key THEN entry ELSE cache[k]], outcome |-> outcome]
              ELSE [ok |-> FALSE, fs |-> Remove(fs2, output_file), cache |-> cache, outcome |-> outcome]
    ELSE [ok |-> FALSE, fs |-> UnlinkIfExists(fs2, output_file), cache |-> cache, outcome |-> outcome]

\* decode_with_config from the wrapping on: the decoder process and the
\* test of its exit code and output
RunDecoder(wrap, cache, raw_file, output_file, width, height, block_w, block_h, cache_key, dec) ==
    LET cfg == <<width, height, block_w, block_h>>
        outcome == DecoderOutcome(dec, cfg)
        fs2 == IF outcome \in {"png", "garbage", "small", "nonzero_output", "raise_output"} THEN WriteBytes(wrap.fs, output_file, DecoderOutput(outcome, cfg)) ELSE wrap.fs
        entry == [width |-> width, height |-> height, block_w |-> block_w, block_h |-> block_h, original_size |-> GetSize(wrap.fs, raw_file)]
    IN  IF ~wrap.ok THEN [ok |-> FALSE, fs |-> wrap.fs, cache |-> cache, outcome |-> "wrap_failed"]
        ELSE Bind(fs2, LAMBDA f : AfterDecoder(f, cache, output_file, outcome, cache_key, entry))

\* decode_with_config(astcenc_path, raw_file, output_file, width, height,
\* block_w, block_h, cache_key): cache_key is the stem, never empty; the
\* finally block removes the wrapped file
DecodeWithConfig(fsys, cache, raw_file, output_file, width, height, block_w, block_h, cache_key, dec) ==
    Bind(WrapRawAstc(WriteBytes(fsys, TempAstc, <<>>), raw_file, TempAstc, width, height, block_w, block_h), LAMBDA wrap :
        Bind(RunDecoder(wrap, cache, raw_file, output_file, width, height, block_w, block_h, cache_key, dec), LAMBDA r :
            [r EXCEPT !.fs = UnlinkIfExists(r.fs, TempAstc)]))

\* the trace's record of one candidate attempt: its configuration, what the
\* decoder did, and which scratch files the attempt left
Attempt(phase, r, output_file, width, height, block_w, block_h) == [Event(phase, r.outcome) EXCEPT !.cfg = <<width, height, block_w, block_h>>, !.accepted = r.ok, !.astc_left = Exists(r.fs, TempAstc), !.out_left = Exists(r.fs, output_file)]

RECURSIVE TryBlockSizes(_, _, _, _, _, _, _)
\* the loop of decode_with_mapping from block size i on
TryBlockSizes(fsys, cache, texture_file, output_path, texture_info, dec, i) ==
    IF i > Len(CommonBlockSizes) THEN [ok |-> FALSE, fs |-> fsys, cache |-> cache, trace |-> <<>>]
    ELSE LET block_w == CommonBlockSizes[i][1]
             block_h == CommonBlockSizes[i][2]
             output_file == Path(output_path, Name(Basename(texture_file).base, Basename(texture_file).suffix, ".png"))
         IN  Bind(DecodeWithConfig(fsys, cache, texture_file, output_file, texture_info.width, texture_info.height, block_w, block_h, Stem(Basename(texture_file)), dec), LAMBDA r :
                 Bind(Attempt("decode_with_mapping", r, output_file, texture_info.width, texture_info.height, block_w, block_h), LAMBDA ev :
                     IF r.ok THEN [ok |-> TRUE, fs |-> r.fs, cache |-> r.cache, trace |-> <<ev>>]
                     ELSE Bind(TryBlockSizes(r.fs, r.cache, texture_file, output_path, texture_info, dec, i + 1), LAMBDA rest : [rest EXCEPT !.trace = <<ev>> \o rest.trace])))

\* decode_with_mapping(astcenc_path, texture_file, output_path, mapping)
DecodeWithMapping(fsys, cache, texture_file, output_path, map, dec) ==
    LET texture_info == FindTextureInfo(Stem(Basename(texture_file)), map)
    IN  IF ~texture_info.found THEN [ok |-> FALSE, fs |-> fsys, cache |-> cache, trace |-> <<>>]
        ELSE TryBlockSizes(fsys, cache, texture_file, output_path, texture_info.value, dec, 1)

RECURSIVE TryConfigurations(_, _, _, _, _, _)
\* the loop of brute_force_decode from configuration i on
TryConfigurations(fsys, cache, texture_file, output_path, dec, i) ==
    IF i > Len(Configurations) THEN [ok |-> FALSE, fs |-> fsys, cache |-> cache, trace |-> <<>>]
    ELSE LET c == Configurations[i]
             file_size == GetSize(fsys, texture_file)
             expected_size == CalculateAstcSize(c.width, c.height, c.block_w, c.block_h)
             output_file == Path(output_path, Name(Basename(texture_file).base, Basename(texture_file).suffix \o "_BF_" \o c.desc, ".png"))
         IN  IF SizeMismatch(expected_size, file_size) THEN TryConfigurations(fsys, cache, texture_file, output_path, dec, i + 1)
             ELSE Bind(DecodeWithConfig(fsys, cache, texture_file, output_file, c.width, c.height, c.block_w, c.block_h, Stem(Basename(texture_file)), dec), LAMBDA r :
                      Bind(Attempt("brute_force_decode", r, output_file, c.width, c.height, c.block_w, c.block_h), LAMBDA ev :
                          IF r.ok THEN [ok |-> TRUE, fs |-> r.fs, cache |-> r.cache, trace |-> <<ev>>]
                          ELSE Bind(TryConfigurations(r.fs, r.cache, texture_file, output_path, dec, i + 1), LAMBDA rest : [rest EXCEPT !.trace = <<ev>> \o rest.trace])))

\* brute_force_decode(astcenc_path, texture_file, output_path)
BruteForceDecode(fsys, cache, texture_file, output_path, dec) == TryConfigurations(fsys, cache, texture_file, output_path, dec, 1)

\* list(output_path.glob("*.png"))
GlobPng(fsys, dir) == {p \in DOMAIN fsys : p.dir = dir /\ p.name.ext = ".png" /\ fsys[p].exists}

\* load_quest_texture once the search has ended with s
AfterSearch(s, temp_dir, cache_path, env) ==
    LET png_files == GlobPng(s.fs, temp_dir)
        first == CHOOSE p \in png_files : TRUE
        opened == ImageOpen(s.fs[first])
        img == ConvertRGBA(opened.value)
    IN  IF s.ok /\ png_files # {}
        THEN IF opened.found THEN Ret(img, Rmtree(ImgSave(s.fs, cache_path, img, env.save), temp_dir), s.cache, s.trace)
             ELSE Ret(CreateFormatPreview("ASTC Error"), s.fs, s.cache, s.trace)
        ELSE Ret(CreateFormatPreview("ASTC Decode Failed"), Rmtree(s.fs, temp_dir), s.cache, s.trace)

\* success = decode_with_mapping(...); if not success: success =
\* brute_force_decode(...)
Search(fsys, cache, map, texture_path, temp_dir, dec) ==
    Bind(DecodeWithMapping(fsys, cache, texture_path, temp_dir, map, dec), LAMBDA m :
        IF m.ok THEN m
        ELSE Bind(BruteForceDecode(m.fs, m.cache, texture_path, temp_dir, dec), LAMBDA b : [b EXCEPT !.trace = m.trace \o b.trace]))

\* load_quest_texture(texture_path, cache_path); an exception past mkdtemp
\* leaves through the outer except, which returns without removing temp_dir
LoadQuestTexture(fsys, cache, map, astcenc, texture_path, cache_path, dec, env) ==
    IF ~astcenc THEN Ret(CreateFormatPreview("Missing astcenc"), fsys, cache, <<>>)
    ELSE Bind(FreshDir(fsys, "astc_decode_").value, LAMBDA temp_dir :
             Bind(Search(Mkdir(fsys, temp_dir), cache, map, texture_path, temp_dir, dec), LAMBDA s : AfterSearch(s, temp_dir, cache_path, env)))

\* mutant: the cache file that failed to decode is kept
EvictCorrupt_Keeps(fsys, cache_path) == fsys

\* except Exception: try: os.remove(cache_path) except: pass
EvictCorrupt(fsys, cache_path) == Remove(fsys, cache_path)

\* load_texture(texture_path, is_quest_texture)
LoadTexture(fsys, cache, map, astcenc, texture_path, is_quest_texture, dec, env) ==
    LET cache_path == GetCachePath(texture_path)
        cached == Exists(fsys, cache_path)
        opened == ImageOpen(fsys[cache_path])
        fs1 == IF cached THEN EvictCorrupt(fsys, cache_path) ELSE fsys
        looked == IF cached THEN <<Event("cache", "corrupt")>> ELSE <<Event("cache", "miss")>>
        ret == IF is_quest_texture THEN LoadQuestTexture(fs1, cache, map, astcenc, texture_path, cache_path, dec, env)
               ELSE LoadDdsTexture(fs1, cache, texture_path, cache_path, env)
    IN  IF cached /\ opened.found THEN Ret(ConvertRGBA(opened.value), fsys, cache, <<Event("cache", "hit")>>)
        ELSE Bind(ret, LAMBDA r : [r EXCEPT !.trace = looked \o r.trace])

-----------------------------------------------------------------------------
(* The preview state machine: one selected texture, load_texture calls.    *)

\* every path a load_texture call may touch
LoadPaths ==
    {Path(Join(OutputFolder, <<b>>), n) : b \in {PCVR_TEXTURES, QUEST_TEXTURES}, n \in Names}
    \cup {GetCachePath(Path(OutputFolder, n)) : n \in Names}
    \cup {TexconvExe, TempInput, TempAstc}
    \cup {Path(Join(TmpDir, <<"texconv_", TempSuffixes[i]>>), n) : i \in 1..Len(TempSuffixes), n \in {DirEntry, Name(TempInput.name.base, "", ".png")}}
    \cup {Path(Join(TmpDir, <<"astc_decode_", TempSuffixes[i]>>), n) : i \in 1..Len(TempSuffixes), n \in {DirEntry} \cup {Name(t.base, t.suffix, ".png") : t \in Names} \cup {Name(t.base, t.suffix \o "_BF_" \o Configurations[c].desc, ".png") : t \in Names, c \in 1..Len(Configurations)}}

\* the selected texture's file and its preview
TexturePath == Path(Join(OutputFolder, <<TexturesBucket>>), current_texture)
CachePath == GetCachePath(TexturePath)

\* a preview cache entry left by an earlier session: none, a preview, or a
\* file that is no image
CacheOptions == {NoFile, File(PngBytes(Image("RGBA", <<1, 2>>))), File(<<1, 2, 3>>)}

\* the PC textures: containers of the DXT1 family and of the extended
\* family with codes 26, 71, 72 and 78; a container cut off inside its
\* header; a file with a wrong signature; headerless block data
PcTextureFiles ==
    {MadeFile(DefaultMade)}
    \cup {MadeFile([DefaultMade EXCEPT !.four_cc = DX10, !.ext_len = DX10_HEADER_LEN, !.format_code = Big(0, c)]) : c \in {26, 71, 72, 78}}
    \cup {MadeFile([DefaultMade EXCEPT !.header_len = DDS_HEADER_LEN - 1]), MadeFile([DefaultMade EXCEPT !.signature = <<68, 68, 83, 0>>]), File(Pattern(8, 1))}

EmptyTree == [p \in LoadPaths |-> NoFile]

InitLoadPcvr ==
    /\ is_quest_textures = FALSE
    /\ current_texture = RockD
    /\ \E t \in PcTextureFiles, c \in CacheOptions, x \in {NoFile, File(<<77, 90>>)} :
          fs = [EmptyTree EXCEPT ![TexturePath] = t, ![CachePath] = c, ![TexconvExe] = x]
    /\ mapping = EmptyMap
    /\ astcenc_path = FALSE
    /\ decoder = NoDecoder

\* the configurations a decoder may accept: of the mapping phase the first,
\* the last, two at once; of the brute-force phase two of equal expected
\* size; one of each phase
AcceptOptionsMapping == {{}, {<<128, 64, 4, 4>>}, {<<128, 64, 8, 8>>, <<128, 64, 5, 5>>}, {<<128, 64, 10, 8>>}}
AcceptOptionsBrute == {{}, {<<2048, 1024, 8, 8>>}, {<<1024, 512, 4, 4>>}, {<<2048, 1024, 8, 8>>, <<1024, 512, 4, 4>>}, {<<128, 64, 6, 6>>, <<2048, 1024, 8, 8>>}}

Decoders(accepts, kinds, rejects) == {[accept |-> a, accept_kind |-> k, reject |-> r] : a \in accepts, k \in kinds, r \in rejects}

\* the decoders tried on the small texture: every accept option with one
\* way of rejecting, one accept option with every way of rejecting, and
\* decoders that reject everything with a too small output or by raising
DecodersSmall == Decoders(AcceptOptionsMapping, {"png", "garbage"}, {"nonzero"}) \cup Decoders({{<<128, 64, 8, 8>>, <<128, 64, 5, 5>>}}, {"png"}, RejectKinds) \cup Decoders({{}}, {"png"}, {"small", "raise_output"})

\* a headset texture too small for any brute-force configuration
InitLoadQuestSmall ==
    /\ current_texture \in Names
    /\ \E c \in CacheOptions : fs = [EmptyTree EXCEPT ![TexturePath] = File(Pattern(3, 11)), ![CachePath] = c]
    /\ mapping \in MappingOptions
    /\ astcenc_path \in BOOLEAN
    /\ decoder \in IF astcenc_path THEN DecodersSmall ELSE {NoDecoder}

\* the decoders tried on the big texture
DecodersBig == Decoders(AcceptOptionsBrute, {"png"}, {"raise_output"}) \cup Decoders({{<<1024, 512, 4, 4>>}}, {"garbage"}, {"raise_output"})

\* the byte sizes of the big texture: the size of 2048x1024 in 8x8 blocks
\* (and of 1024x512 in 4x4 blocks), 100 bytes less, 101 bytes more
BigSizes == {CalculateAstcSize(2048, 1024, 8, 8), CalculateAstcSize(2048, 1024, 8, 8) - 100, CalculateAstcSize(2048, 1024, 8, 8) + 101}

\* a headset texture of 2048x1024 in 8x8 blocks, or 1024x512 in 4x4 blocks,
\* whole, cut short or with trailing bytes
InitLoadQuestBig ==
    /\ current_texture = RockD
    /\ \E n \in BigSizes : fs = [EmptyTree EXCEPT ![TexturePath] = ZeroFile(n)]
    /\ mapping \in {EmptyMap, [k \in {Stem(RockD)} |-> [width |-> 128, height |-> 64]]}
    /\ astcenc_path = TRUE
    /\ decoder \in DecodersBig

\* the memo when the texture is selected: empty, or holding what an earlier
\* search of this session recorded under the name rock
LoadMemoOptions == {EmptyMap, [k \in {Stem(Rock)} |-> MemoEntry(3)]}

InitLoad ==
    /\ \/ InitLoadPcvr
       \/ is_quest_textures = TRUE /\ (InitLoadQuestSmall \/ InitLoadQuestBig)
    /\ DECODE_CACHE \in IF is_quest_textures THEN LoadMemoOptions ELSE {EmptyMap}
    /\ loads = <<>>
    /\ threads = NoThreads
    /\ after = <<>>
    /\ gui = NoGui
    /\ result = NoResult
    /\ encoder = NoEncoder
    /\ dds_file = NoFile
    /\ dds_made = DefaultMade
    /\ dds_info = NotCalled

\* what a call leaves in the window: what it was called on, the preview
\* cache entry it found, its steps, the image it returned, the preview cache
\* entry after it
Call(r) == [texture |-> TexturePath, is_quest |-> is_quest_textures, found |-> fs[CachePath], trace |-> r.trace, img |-> r.img, cached |-> r.fs[CachePath]]

Window(calls, c) == IF Len(calls) < 2 THEN Append(calls, c) ELSE <<calls[2], c>>

\* what the image library and the converter do during one PC call: the
\* direct open works (a save follows), or it raises and the converter runs
\* (a save follows only its "ok")
PcvrEnvs ==
    {[direct |-> "ok", tc |-> "raise", save |-> s] : s \in SaveOutcomes}
    \cup {[direct |-> "raise", tc |-> t, save |-> "ok"] : t \in TexconvOutcomes}
    \cup {[direct |-> "raise", tc |-> "ok", save |-> s] : s \in SaveOutcomes}

\* load_texture(self.current_texture, False)
LoadTexturePcvr ==
    /\ ~is_quest_textures
    /\ \E env \in PcvrEnvs :
          \E r \in {LoadTexture(fs, DECODE_CACHE, mapping, astcenc_path, TexturePath, FALSE, decoder, env)} :
              /\ fs' = r.fs
              /\ DECODE_CACHE' = r.cache
              /\ loads' = Window(loads, Call(r))
    /\ UNCHANGED <<mapping, astcenc_path, is_quest_textures, current_texture, result, encoder, ddsVars, decoder, uiVars>>

\* load_texture(self.current_texture, True); tempfile has a fresh name left
LoadTextureQuest ==
    /\ is_quest_textures
    /\ FreshDir(fs, "astc_decode_").found
    /\ \E save \in SaveOutcomes :
          \E r \in {LoadTexture(fs, DECODE_CACHE, mapping, astcenc_path, TexturePath, TRUE, decoder, [direct |-> "raise", tc |-> "raise", save |-> save])} :
              /\ fs' = r.fs
              /\ DECODE_CACHE' = r.cache
              /\ loads' = Window(loads, Call(r))
    /\ UNCHANGED <<mapping, astcenc_path, is_quest_textures, current_texture, result, encoder, ddsVars, decoder, uiVars>>

NextLoad == LoadTexturePcvr \/ LoadTextureQuest

SpecLoad == InitLoad /\ [][NextLoad]_vars

\* the call just made
Last == loads[Len(loads)]

\* the last call went past the preview cache into load_dds_texture
PcDecoded == loads # <<>> /\ ~Last.is_quest /\ Last.trace[1].outcome # "hit"

\* the steps of the last call after its cache lookup
Steps == Tail(Last.trace)

\* the descriptor of the selected texture
Descriptor == GetDdsInfo(fs[TexturePath])

\* C11: load_dds_texture hands a texture whose descriptor is problematic to
\* load_with_texconv without ever trying the direct open; any other texture
\* (parsed or not) gets the direct open first, and a failed direct open is
\* always followed by load_with_texconv, a successful one by nothing.
C11_DecodeRouting ==
    PcDecoded =>
        /\ (Descriptor.found /\ Descriptor.value.is_problematic) =>
              /\ Steps[1].ev = "load_with_texconv"
              /\ \A i \in 1..Len(Steps) : Steps[i].ev # "direct_open"
        /\ ~(Descriptor.found /\ Descriptor.value.is_problematic) =>
              /\ Steps[1].ev = "direct_open"
              /\ Steps[1].outcome = "raise" => (Len(Steps) >= 2 /\ Steps[2].ev = "load_with_texconv")
              /\ Steps[1].outcome = "ok" => Len(Steps) = 1

C11_Witness == PcDecoded /\ Descriptor.found /\ Descriptor.value.is_problematic /\ Len(Steps) = 2 /\ Steps[2].ev = "texconv" /\ Last.img.kind = "image"

C11_WitnessFallback == PcDecoded /\ Descriptor.found /\ ~Descriptor.value.is_problematic /\ Len(Steps) = 3 /\ Steps[1].outcome = "raise" /\ Steps[3].ev = "texconv"

\* the container the claim expects for headerless data: 256x256, one mip
\* level, FourCC "DX10", format code 71, then the raw bytes
ExpectedContainer(raw_data) ==
    LET m == [DefaultMade EXCEPT !.width = Big(0, 256), !.height = Big(0, 256), !.mipmaps = Big(0, 1), !.four_cc = <<68, 88, 49, 48>>, !.format_code = Big(0, 71)]
    IN  <<68, 68, 83, 32>> \o DdsHeader(m) \o Dx10Header(m) \o raw_data

\* C12: when load_with_texconv (converter present) is given a file that
\* does not start with "DDS ", the converter is run on a scratch container
\* made of the fixed header (256x256 when the parse yields nothing, one mip
\* level, FourCC "DX10"), the 20-byte extension block with format code 71,
\* and the raw bytes.
C12_SynthesizedContainer ==
    (PcDecoded /\ Exists(fs, TexconvExe) /\ fs[TexturePath].exists /\ Slice(fs[TexturePath].data, 0, 4) # <<68, 68, 83, 32>>) =>
        \E i \in 1..Len(Steps) :
            /\ Steps[i].ev = "texconv"
            /\ Steps[i].input = ExpectedContainer(fs[TexturePath].data)

\* C13: the converter is run with "-f R16G16B16A16_FLOAT" exactly when the
\* texture's descriptor has the extended format code 26
\* (R11G11B10_FLOAT).
C13_ForcedFormat ==
    PcDecoded =>
        \A i \in 1..Len(Steps) :
            Steps[i].ev = "texconv" => (Steps[i].forced <=> (Descriptor.found /\ Descriptor.value.format_code = Found(Big(0, 26))))

\* the scratch files of the converter path that exist: the scratch input
\* container, the scratch output directories and what is in them
TexconvScratch == {p \in DOMAIN fs : fs[p].exists /\ (p = TempInput \/ (Len(p.dir) = 3 /\ p.dir[2] = "texconv_"))}

\* the outcomes of the converter runs of the last call
ConverterRuns == {Steps[i].outcome : i \in {j \in 1..Len(Steps) : Steps[j].ev = "texconv"}}

\* C14: when a PC load_texture call has returned, whatever the return path
\* of load_with_texconv (converter missing, converter raising or exiting
\* non-zero, no output file, an exception while preparing the input or
\* loading the output, success), neither the scratch input container nor a
\* scratch output directory exists.
C14_NoScratchLeft == (loads # <<>> /\ ~Last.is_quest) => TexconvScratch = {}

C14_Witness == PcDecoded /\ ConverterRuns = {"bad_output"} /\ Last.img.label = "texconv error" /\ TexconvScratch = {}

C14_WitnessSuccess == PcDecoded /\ ConverterRuns = {"ok"} /\ Last.img.kind = "image" /\ TexconvScratch = {}

C14_WitnessNonZero == PcDecoded /\ ConverterRuns = {"nonzero"} /\ TexconvScratch = {}

C14_WitnessNoOutput == PcDecoded /\ ConverterRuns = {"no_output"} /\ Last.img.label = "texconv failed" /\ TexconvScratch = {}

C14_WitnessSynthesizing == PcDecoded /\ Exists(fs, TexconvExe) /\ ~Descriptor.found /\ ConverterRuns = {} /\ Last.img.label = "texconv error" /\ TexconvScratch = {}

C14_WitnessMissing == PcDecoded /\ Last.img.label = "Missing texconv.exe" /\ TexconvScratch = {}

\* the last call went past the preview cache into load_quest_texture
QuestDecoded == loads # <<>> /\ Last.is_quest /\ Last.trace[1].outcome # "hit"

\* the candidate attempts of a call, by phase
MappingAttempts(call) == {i \in 2..Len(call.trace) : call.trace[i].ev = "decode_with_mapping"}
BruteAttempts(call) == {i \in 2..Len(call.trace) : call.trace[i].ev = "brute_force_decode"}

\* the configurations a call accepted
Accepted(call) == {call.trace[i].cfg : i \in {j \in 2..Len(call.trace) : call.trace[j].accepted}}

\* the position of a configuration in the brute-force list
BruteIndex(cfg) == CHOOSE k \in 1..Len(Configurations) : <<Configurations[k].width, Configurations[k].height, Configurations[k].block_w, Configurations[k].block_h>> = cfg

\* C15: in a headset decode the mapping-guided attempts come first and
\* take the block sizes in the order (4,4),(8,8),(6,6),(5,5),(10,10),
\* (12,12),(5,4),(6,5),(8,5),(8,6),(10,5),(10,6),(10,8); brute-force
\* attempts are made only when no mapping attempt was accepted, in the
\* order of the configuration list; an accepted attempt is the last one;
\* the memo records the accepted configuration, and two decodes of the same
\* file in one session accept the same configuration.
C15_SearchOrder ==
    QuestDecoded =>
        LET order == <<<<4, 4>>, <<8, 8>>, <<6, 6>>, <<5, 5>>, <<10, 10>>, <<12, 12>>, <<5, 4>>, <<6, 5>>, <<8, 5>>, <<8, 6>>, <<10, 5>>, <<10, 6>>, <<10, 8>>>>
            t == Last.trace
            M == MappingAttempts(Last)
            B == BruteAttempts(Last)
        IN  /\ \A i \in M : i - 1 <= 13 /\ <<t[i].cfg[3], t[i].cfg[4]>> = order[i - 1]
            /\ \A i \in M, j \in B : i < j
            /\ B # {} => \A i \in M : ~t[i].accepted
            /\ \A i \in B, j \in B : i < j => BruteIndex(t[i].cfg) < BruteIndex(t[j].cfg)
            /\ \A i \in M \cup B : t[i].accepted => i = Len(t)
            /\ \A cfg \in Accepted(Last) :
                  /\ Stem(current_texture) \in DOMAIN DECODE_CACHE
                  /\ LET e == DECODE_CACHE[Stem(current_texture)] IN <<e.width, e.height, e.block_w, e.block_h>> = cfg
            /\ (Len(loads) = 2 /\ Accepted(loads[1]) # {}) => Accepted(loads[1]) = Accepted(Last)

\* all thirteen mapping attempts rejected, then two brute-force attempts,
\* the second accepted
C15_Witness == QuestDecoded /\ Cardinality(MappingAttempts(Last)) = 13 /\ Cardinality(BruteAttempts(Last)) = 2 /\ Accepted(Last) = {<<1024, 512, 4, 4>>}

\* two block sizes acceptable, the earlier one taken, twice in a row
C15_WitnessTwice == QuestDecoded /\ Len(loads) = 2 /\ Accepted(loads[1]) = {<<128, 64, 8, 8>>} /\ Accepted(Last) = {<<128, 64, 8, 8>>} /\ Len(Last.trace) = 3

\* the scratch files of the headset decode that exist: the wrapped .astc
\* file, the scratch directories and what is in them
AstcScratch == {p \in DOMAIN fs : fs[p].exists /\ (p = TempAstc \/ (Len(p.dir) = 3 /\ p.dir[2] = "astc_decode_"))}

\* every rejected candidate attempt of the last call removed its wrapped
\* file and its output file
RejectedAttemptsCleaned == \A i \in MappingAttempts(Last) \cup BruteAttempts(Last) : ~Last.trace[i].accepted => (~Last.trace[i].astc_left /\ ~Last.trace[i].out_left)

\* C16: in a headset decode every rejected candidate attempt has deleted
\* its wrapped .astc file and its output file, and when load_quest_texture
\* has returned (an image, "ASTC Decode Failed", or an error while loading
\* the decoded output) no scratch directory of the decode exists.
C16_NoTempFilesLeft ==
    (loads # <<>> /\ Last.is_quest) =>
        /\ RejectedAttemptsCleaned
        /\ AstcScratch = {}

\* the part of C16 about the candidate attempts alone
C16_RejectedAttempts == (loads # <<>> /\ Last.is_quest) => RejectedAttemptsCleaned

\* a call that decoded the texture itself and returned an image
Decoded(call) == call.img.kind = "image" /\ call.trace[1].outcome # "hit"

\* a call that ran the converter or the decoder
RanExternal(call) == \E i \in 1..Len(call.trace) : call.trace[i].ev \in {"texconv", "decode_with_mapping", "brute_force_decode"}

\* a call served from the preview cache, returning what the earlier call
\* decoded (in the RGBA form every cache read converts to)
ServedFromCache(call, first) ==
    /\ call.trace = <<Event("cache", "hit")>>
    /\ ~RanExternal(call)
    /\ call.img = ConvertRGBA(first.img)

C17_WitnessPcvr == Len(loads) = 2 /\ ~loads[1].is_quest /\ Decoded(loads[1]) /\ ImageOpen(loads[1].cached).found /\ RanExternal(loads[1]) /\ ServedFromCache(Last, loads[1])

C17_WitnessDirect == Len(loads) = 2 /\ ~loads[1].is_quest /\ Decoded(loads[1]) /\ loads[1].img.mode = "RGB" /\ ServedFromCache(Last, loads[1])

\* the last call found a preview cache file that does not decode
FoundCorrupt == loads # <<>> /\ Last.found.exists /\ ~ImageOpen(Last.found).found

\* what the call's own img.save(cache_path) can have left of an image
SavedAs(img) == {NoFile, File(PngBytes(img)), File(Slice(PngBytes(img), 0, 3))}

\* C18: when load_texture finds a cache file that fails to decode, the call
\* is not served from the cache and returns no "Error Loading" result: it
\* goes on to the platform decode path (the direct open or
\* load_with_texconv, or load_quest_texture); the corrupt file is gone
\* afterwards, the cache entry being absent or what this call saved of the
\* image it recomputed.
C18_SelfHealing ==
    FoundCorrupt =>
        /\ Last.trace[1] = Event("cache", "corrupt")
        /\ Last.img.label # "Error Loading"
        /\ ~Last.is_quest => (Len(Last.trace) >= 2 /\ Last.trace[2].ev \in {"direct_open", "load_with_texconv"})
        /\ Last.is_quest => (Last.img.kind = "image" \/ Last.img.label \in {"Missing astcenc", "ASTC Decode Failed", "ASTC Error"})
        /\ Last.img.kind = "placeholder" => Last.cached = NoFile
        /\ Last.img.kind = "image" => Last.cached \in SavedAs(Last.img)

C18_Witness == FoundCorrupt /\ Last.found = File(<<1, 2, 3>>) /\ Last.img.kind = "image" /\ RanExternal(Last) /\ Last.cached = File(PngBytes(Last.img))

C18_WitnessEvicted == FoundCorrupt /\ Last.img.kind = "placeholder" /\ Last.cached = NoFile

C18_WitnessPartial == FoundCorrupt /\ Len(loads) = 2 /\ loads[1].cached = File(Slice(PngBytes(loads[1].img), 0, 3)) /\ Last.is_quest /\ Last.img.kind = "image"

-----------------------------------------------------------------------------
(* get_dds_info applied to synthesized containers.                         *)

\* unsigned 32-bit values: the ends of the range, the limb and byte borders
U32Samples == {Big(0, 0), Big(0, 1), Big(0, 255), Big(0, 256), Big(0, 2048), Big(0, LIMB - 1), Big(1, 0), Big(255, 65280), Big(LIMB - 1, LIMB - 1)}

\* format codes: those the synthesis writes, the denylist, codes without a
\* name, the ends of the range
CodeSamples == {Big(0, 0), Big(0, 26), Big(0, 71), Big(0, 72), Big(0, 77), Big(0, 78), Big(0, 80), Big(0, 83), Big(1, 71), Big(LIMB - 1, LIMB - 1)}

\* the raw bytes written after the headers
RawSamples == {<<>>, Pattern(8, 1)}

InitSynth ==
    /\ \E w \in U32Samples, h \in U32Samples, c \in CodeSamples :
           dds_made = [DefaultMade EXCEPT !.width = w, !.height = h, !.four_cc = DX10, !.ext_len = DX10_HEADER_LEN, !.format_code = c]
    /\ \E raw \in RawSamples : dds_file = File(SynthHeader(dds_made.width, dds_made.height, dds_made.format_code) \o raw)
    /\ dds_info = NotCalled
    /\ fs = UserFiles
    /\ DECODE_CACHE = EmptyMap
    /\ mapping = EmptyMap
    /\ astcenc_path = FALSE
    /\ is_quest_textures = FALSE
    /\ current_texture = RockD
    /\ result = NoResult
    /\ encoder = NoEncoder
    /\ loads = <<>>
    /\ decoder = NoDecoder
    /\ threads = NoThreads
    /\ after = <<>>
    /\ gui = NoGui

SpecSynth == InitSynth /\ [][NextDds]_vars

\* the file starts with the synthesized headers for the fields of dds_made
Synthesized == dds_file.exists /\ Slice(dds_file.data, 0, 4 + DDS_HEADER_LEN + DX10_HEADER_LEN) = SynthHeader(dds_made.width, dds_made.height, dds_made.format_code)

\* C21: for every unsigned 32-bit width, height and format code, a container
\* that starts with the synthesized layout of load_with_texconv ("DDS "
\* magic, 124-byte header with FourCC "DX10", 20-byte extension block) is
\* parsed by get_dds_info to the same width, height and format code, with
\* mipmaps = 1.
C21_HeaderRoundTrip ==
    (dds_info.called /\ Synthesized /\ FitsU32(dds_made.width) /\ FitsU32(dds_made.height) /\ FitsU32(dds_made.format_code)) =>
        /\ dds_info.ret.found
        /\ dds_info.ret.value.width = dds_made.width
        /\ dds_info.ret.value.height = dds_made.height
        /\ dds_info.ret.value.format_code = Found(dds_made.format_code)
        /\ dds_info.ret.value.mipmaps = Big(0, 1)

C21_Witness == dds_info.called /\ Synthesized /\ dds_made.width = Big(255, 65280) /\ dds_made.height = Big(0, 1) /\ dds_made.format_code = Big(LIMB - 1, LIMB - 1) /\ dds_info.ret.found /\ dds_info.ret.value.width = Big(255, 65280) /\ dds_info.ret.value.height = Big(0, 1)

-----------------------------------------------------------------------------
(* The decode-parameter memo during a preview load.                        *)

\* result.returncode == 0
ExitZero(outcome) == outcome \in {"png", "garbage", "small", "no_output"}

\* the decoder left an output file
WroteOutput(outcome) == outcome \in {"png", "garbage", "small", "nonzero_output", "raise_output"}

\* a candidate attempt met the acceptance test: exit code 0, output file
\* present, output larger than 1000 bytes
MetAcceptance(e) == ExitZero(e.outcome) /\ WroteOutput(e.outcome) /\ Len(DecoderOutput(e.outcome, e.cfg)) > 1000

\* the candidates of a call that met the acceptance test
MetBy(call) == {call.trace[i].cfg : i \in {j \in MappingAttempts(call) \cup BruteAttempts(call) : MetAcceptance(call.trace[j])}}

\* the memo entry of a candidate for a raw file of n bytes
EntryOf(cfg, n) == [width |-> cfg[1], height |-> cfg[2], block_w |-> cfg[3], block_h |-> cfg[4], original_size |-> n]

\* C22: DECODE_CACHE[name] is written only by a call in which a candidate
\* attempt for the texture with base name "name" was accepted (exit code 0,
\* output present, output larger than 1000 bytes), and then holds exactly
\* that candidate's width, height, block_w, block_h and the raw file's byte
\* size; a call whose candidates are all rejected, raise or time out leaves
\* the memo as it was, and no call changes another name's entry.
C22_MemoWrittenOnAccept ==
    [][LET call == loads'[Len(loads')]
           key == Stem(current_texture)
       IN  /\ MetBy(call) = {} => DECODE_CACHE' = DECODE_CACHE
           /\ \A cfg \in MetBy(call) : DECODE_CACHE' = [k \in DOMAIN DECODE_CACHE \cup {key} |-> IF k = key THEN EntryOf(cfg, GetSize(fs, TexturePath)) ELSE DECODE_CACHE[k]]]_vars

\* a search that accepted 10x8 after twelve rejections replaced the entry an
\* earlier search had left under the same name
C22_Witness == QuestDecoded /\ Last.texture.name = Rock /\ MetBy(Last) = {<<128, 64, 10, 8>>} /\ Cardinality(MappingAttempts(Last)) = 13 /\ DECODE_CACHE = [k \in {Stem(Rock)} |-> EntryOf(<<128, 64, 10, 8>>, 3)]

\* every candidate was rejected for its small output: the earlier entry stays
C22_WitnessRejected == QuestDecoded /\ Last.texture.name = Rock /\ MetBy(Last) = {} /\ Cardinality(MappingAttempts(Last)) = 13 /\ Last.trace[2].outcome = "small" /\ DECODE_CACHE = [k \in {Stem(Rock)} |-> MemoEntry(3)]

\* a brute-force acceptance adds rock_d's entry beside rock's
C22_WitnessBrute == QuestDecoded /\ Last.texture.name = RockD /\ MetBy(Last) = {<<1024, 512, 4, 4>>} /\ DOMAIN DECODE_CACHE = {Stem(Rock), Stem(RockD)} /\ DECODE_CACHE[Stem(Rock)] = MemoEntry(3) /\ DECODE_CACHE[Stem(RockD)].original_size = 524288

-----------------------------------------------------------------------------
(* The size gate of the brute-force phase.                                 *)

\* ceil(a / b)
Ceil(a, b) == IF a % b = 0 THEN a \div b ELSE a \div b + 1

\* |ceil(width/block_w) * ceil(height/block_h) * 16 - n| <= 100
PassesGate(cfg, n) == Abs(Ceil(cfg[1], cfg[3]) * Ceil(cfg[2], cfg[4]) * 16 - n) <= 100

\* the configurations of the brute-force table, as <<w, h, bw, bh>>
TableCfg(k) == <<Configurations[k].width, Configurations[k].height, Configurations[k].block_w, Configurations[k].block_h>>

\* the output files of the brute-force phase that exist
BruteOutputs == {p \in DOMAIN fs : fs[p].exists /\ Len(p.dir) = 3 /\ p.dir[2] = "astc_decode_" /\ \E k \in 1..Len(Configurations) : p.name.suffix = current_texture.suffix \o "_BF_" \o Configurations[k].desc}

\* C23: a named configuration is passed to the external decoder only if
\* |ceil(width/block_w) * ceil(height/block_h) * 16 - file size| <= 100;
\* for a configuration failing this test no decoder process is started and
\* no output file of its name is created.
C23_SizeGate ==
    (loads # <<>> /\ Last.is_quest) =>
        /\ \A i \in BruteAttempts(Last) : PassesGate(Last.trace[i].cfg, GetSize(fs, TexturePath))
        /\ \A k \in 1..Len(Configurations) : ~PassesGate(TableCfg(k), GetSize(fs, TexturePath)) =>
               /\ \A i \in BruteAttempts(Last) : Last.trace[i].cfg # TableCfg(k)
               /\ \A p \in BruteOutputs : p.name.suffix # current_texture.suffix \o "_BF_" \o Configurations[k].desc

\* a file 100 bytes short of 2048x1024 in 8x8 blocks: the two configurations
\* of that size were tried and rejected, the six others were never run
C23_Witness == QuestDecoded /\ GetSize(fs, TexturePath) = CalculateAstcSize(2048, 1024, 8, 8) - 100 /\ {Last.trace[i].cfg : i \in BruteAttempts(Last)} = {<<2048, 1024, 8, 8>>, <<1024, 512, 4, 4>>} /\ Last.img.label = "ASTC Decode Failed"

\* a file 101 bytes too long: no configuration was run
C23_WitnessTooLong == QuestDecoded /\ GetSize(fs, TexturePath) = CalculateAstcSize(2048, 1024, 8, 8) + 101 /\ BruteAttempts(Last) = {} /\ Last.img.label = "ASTC Decode Failed"

\* the accepted output that stays behind belongs to a configuration that
\* passed the gate
C23_WitnessOutputLeft == QuestDecoded /\ BruteOutputs # {} /\ Last.img.label = "ASTC Error"

-----------------------------------------------------------------------------
(* External processes: every subprocess.run of the program, the thread     *)
(* that waits in it, and what the calling operation does with its outcome. *)

\* the call sites of subprocess.run, named after what they run
LaunchPcs == {"adb_version", "kill_server", "devices", "getprop", "mkdir", "push", "astcenc_dl", "astcenc_cl", "extract", "repack", "texconv"}

\* the timeout= argument of each call site, in seconds; the converter's
\* subprocess.run has none
Timeout(pc) ==
    IF pc \in {"adb_version", "devices", "getprop", "astcenc_dl"} THEN Found(10)
    ELSE IF pc = "kill_server" THEN Found(5)
    ELSE IF pc \in {"mkdir", "astcenc_cl"} THEN Found(30)
    ELSE IF pc = "push" THEN Found(60)
    ELSE IF pc \in {"extract", "repack"} THEN Found(2000)
    ELSE None

\* the executable of each call site
Tool(pc) ==
    IF pc \in {"adb_version", "kill_server", "devices", "getprop", "mkdir", "push"} THEN "adb"
    ELSE IF pc \in {"astcenc_dl", "astcenc_cl"} THEN "astcenc"
    ELSE IF pc \in {"extract", "repack"} THEN "evrFileTools"
    ELSE "texconv"

\* subprocess.run(cmd, ..., timeout=...) once the process is started
SubprocessRun(pc) == [tool |-> Tool(pc), timeout |-> Timeout(pc), state |-> "running"]

\* return ok, msg
Return(th, ok, msg) == [th EXCEPT !.pc = "return", !.proc = NoProc, !.ret = [done |-> TRUE, ok |-> ok, msg |-> msg]]

\* on to the next call site
Goto(th, pc) == [th EXCEPT !.pc = pc, !.proc = NoProc]

\* how a subprocess.run ends: exit code 0, another exit code, TimeoutExpired,
\* or an OSError when the process cannot be started
RunOutcomes == {"zero", "nonzero", "timeout", "oserror"}

\* ADBManager.find_adb continued after "adb version", then the caller
AfterFindAdb(th, found) ==
    IF th.op = "check_adb" THEN (IF found THEN Goto(th, "kill_server") ELSE Return(th, FALSE, "ADB not found"))
    ELSE IF found THEN Goto(th, "mkdir") ELSE Return(th, FALSE, "ADB not available")

\* ADBManager.push_to_quest after its loop over the folder
PushSummary(th) ==
    IF th.errors = 0 THEN Return(th, TRUE, "Successfully pushed all")
    ELSE IF th.count > 0 THEN Return(th, TRUE, "Partially successful")
    ELSE Return(th, FALSE, "Failed to push any items")

\* the operation continued after the subprocess.run at th.pc ended with
\* outcome
Resume(th, outcome) ==
    IF th.pc = "adb_version" THEN AfterFindAdb(th, outcome = "zero")
    ELSE IF th.pc = "kill_server" THEN Goto(th, "devices")
    ELSE IF th.pc = "devices" THEN
        IF outcome = "zero" THEN (IF th.n > 0 THEN Goto(th, "getprop") ELSE Return(th, TRUE, "No devices connected"))
        ELSE IF outcome = "nonzero" THEN Return(th, FALSE, "ADB command failed")
        ELSE IF outcome = "timeout" THEN Return(th, FALSE, "ADB timeout")
        ELSE Return(th, FALSE, "ADB error")
    ELSE IF th.pc = "getprop" THEN
        IF outcome = "timeout" THEN Return(th, FALSE, "ADB timeout")
        ELSE IF outcome = "oserror" THEN Return(th, FALSE, "ADB error")
        ELSE IF th.n > 1 THEN [Goto(th, "getprop") EXCEPT !.n = th.n - 1]
        ELSE Return([th EXCEPT !.n = 0], TRUE, "Connected")
    ELSE IF th.pc = "mkdir" THEN
        IF outcome = "zero" THEN (IF th.n > 0 THEN Goto(th, "push") ELSE PushSummary(th))
        ELSE IF outcome = "nonzero" THEN Return(th, FALSE, "Failed to create directory")
        ELSE IF outcome = "timeout" THEN Return(th, FALSE, "Push operation timed out")
        ELSE Return(th, FALSE, "Push error")
    ELSE IF th.pc = "push" THEN
        IF outcome = "timeout" THEN Return(th, FALSE, "Push operation timed out")
        ELSE IF outcome = "oserror" THEN Return(th, FALSE, "Push error")
        ELSE LET counted == [th EXCEPT !.n = th.n - 1, !.count = IF outcome = "zero" THEN th.count + 1 ELSE th.count, !.errors = IF outcome = "zero" THEN th.errors ELSE th.errors + 1]
             IN  IF counted.n > 0 THEN Goto(counted, "push") ELSE PushSummary(counted)
    ELSE IF th.pc = "extract" THEN
        IF outcome = "zero" THEN Return(th, TRUE, "Extracted")
        ELSE IF outcome = "nonzero" THEN Return(th, FALSE, "Extraction failed")
        ELSE IF outcome = "timeout" THEN Return(th, FALSE, "Extraction timeout")
        ELSE Return(th, FALSE, "Extraction error")
    ELSE IF th.pc = "repack" THEN
        IF outcome = "zero" THEN Return(th, TRUE, "Repacked")
        ELSE IF outcome = "nonzero" THEN Return(th, FALSE, "Repacking failed")
        ELSE IF outcome = "timeout" THEN Return(th, FALSE, "Repacking timeout")
        ELSE Return(th, FALSE, "Repacking error")
    ELSE IF th.pc = "astcenc_cl" THEN Return(th, outcome = "zero", outcome)
    ELSE IF th.pc = "astcenc_dl" THEN Return(th, outcome = "zero" /\ th.output_ok, "")
    ELSE Return(th, outcome = "zero" /\ th.output_ok, "")

\* the operations that run an external process
Operations == {"check_adb", "push_to_quest", "extract_package", "repack_package", "encode_texture", "decode_with_config", "load_with_texconv"}

\* the operation from its entry to its first subprocess.run: n devices or
\* folder items; present: a local adb, the archive tool, the raw file or
\* texconv.exe exists; output_ok: the decoder's output is larger than 1000
\* bytes, the converter's output opens as an image, the encoder's output
\* starts with the ASTC magic
Start(op, n, present, output_ok) ==
    LET th == [Idle EXCEPT !.op = op, !.n = n, !.output_ok = output_ok]
    IN  IF op \in {"check_adb", "push_to_quest"} THEN (IF present THEN AfterFindAdb(th, TRUE) ELSE Goto(th, "adb_version"))
        ELSE IF op = "extract_package" THEN (IF present THEN Goto(th, "extract") ELSE Return(th, FALSE, "evrFileTools.exe not found"))
        ELSE IF op = "repack_package" THEN (IF present THEN Goto(th, "repack") ELSE Return(th, FALSE, "evrFileTools.exe not found"))
        ELSE IF op = "encode_texture" THEN Goto(th, "astcenc_cl")
        ELSE IF op = "decode_with_config" THEN (IF present THEN Goto(th, "astcenc_dl") ELSE Return(th, FALSE, ""))
        ELSE IF present THEN Goto(th, "texconv") ELSE Return(th, FALSE, "Missing texconv.exe")

\* devices listed by adb, items in the pushed folder
MaxItems == 2

\* thread t calls subprocess.run: the process starts, or starting it raises
Launch(t) ==
    /\ threads[t].pc \in LaunchPcs
    /\ threads[t].proc = NoProc
    /\ \/ threads' = [threads EXCEPT ![t].proc = SubprocessRun(threads[t].pc)]
       \/ threads' = [threads EXCEPT ![t] = Resume(threads[t], "oserror")]
    /\ UNCHANGED <<stageVars, ddsVars, loadVars, after, gui>>

\* the process thread t waits for exits
ProcessExits(t) ==
    /\ threads[t].proc.state = "running"
    /\ \E outcome \in {"zero", "nonzero"} : threads' = [threads EXCEPT ![t] = Resume(threads[t], outcome)]
    /\ UNCHANGED <<stageVars, ddsVars, loadVars, after, gui>>

\* the timeout of subprocess.run passes: the process is killed,
\* TimeoutExpired is raised in thread t
TimeoutExpired(t) ==
    /\ threads[t].proc.state = "running"
    /\ threads[t].proc.timeout.found
    /\ threads' = [threads EXCEPT ![t] = Resume(threads[t], "timeout")]
    /\ UNCHANGED <<stageVars, ddsVars, loadVars, after, gui>>

\* one operation called on a worker thread
InitProc ==
    /\ \E op \in Operations :
         \E n \in (IF op \in {"check_adb", "push_to_quest"} THEN 0..MaxItems ELSE {0}), present \in BOOLEAN, output_ok \in (IF op \in {"encode_texture", "decode_with_config", "load_with_texconv"} THEN BOOLEAN ELSE {FALSE}) :
             threads = [NoThreads EXCEPT !["w1"] = Start(op, n, present, output_ok)]
    /\ after = <<>>
    /\ gui = NoGui
    /\ fs = UserFiles
    /\ DECODE_CACHE = EmptyMap
    /\ mapping = EmptyMap
    /\ astcenc_path = FALSE
    /\ is_quest_textures = FALSE
    /\ current_texture = RockD
    /\ result = NoResult
    /\ encoder = NoEncoder
    /\ dds_file = NoFile
    /\ dds_made = DefaultMade
    /\ dds_info = NotCalled
    /\ loads = <<>>
    /\ decoder = NoDecoder

NextProc == \E t \in ThreadIds : Launch(t) \/ ProcessExits(t) \/ TimeoutExpired(t)

SpecProc == InitProc /\ [][NextProc]_vars

\* a thread that called subprocess.run gets to run, and a timeout that was
\* set expires; nothing makes the external process exit
SpecProcFair == SpecProc /\ \A t \in ThreadIds : WF_vars(Launch(t)) /\ WF_vars(TimeoutExpired(t))

\* C24: every external-process invocation (converter, block
\* encoder/decoder, archive tool, device-bridge tool) is bounded by a
\* timeout, so every operation that launches an external process returns to
\* its caller even if the process never exits.
C24_EveryOperationReturns == \A t \in ThreadIds : (threads[t].op # "idle") ~> threads[t].ret.done

\* every subprocess.run in progress has a timeout
C24_EveryInvocationBounded == \A t \in ThreadIds : threads[t].proc.state = "running" => threads[t].proc.timeout.found

\* the operations other than load_with_texconv do return
C24_TimedOperationsReturn == \A t \in ThreadIds : (threads[t].op \notin {"idle", "load_with_texconv"}) ~> threads[t].ret.done

\* the device bridge timed out during the second getprop
C24_WitnessTimeout == threads["w1"].op = "check_adb" /\ threads["w1"].ret.msg = "ADB timeout" /\ threads["w1"].n = 1

-----------------------------------------------------------------------------
(* The viewer: handlers on the Tk main thread, the worker threads they     *)
(* start, and the callbacks the workers post with root.after.              *)

Workers == ThreadIds \ {"main"}

\* the main thread is in the Tk event loop, not inside a handler
MainIdle == threads["main"].op = "idle"

\* user events in one session, and in a session that only replaces
MaxEvents == 3
MaxReplaceEvents == 4

\* candidates the headset decode tries before it gives up
MaxCandidates == 2

\* pushes to the headset in one session
MaxPushes == 1

\* devices adb lists when the viewer asks
UiDevices == {0, 1}

\* threading.Thread(...).start(): the thread takes the first free slot
HasFreeWorker(ths) == \E w \in Workers : ths[w].op = "idle"
FreeWorker(ths) == IF ths["w1"].op = "idle" THEN "w1" ELSE "w2"
StartThread(ths, th) == [ths EXCEPT ![FreeWorker(ths)] = th]

\* os.path.join(self.textures_folder, texture_name)
UiTexturePath(name) == Path(Join(OutputFolder, <<TexturesBucket>>), name)

\* the file the user picked in the dialog
ReplacementPath(name) == Path(UserFolder, name)

\* load_texture_thread, created by on_texture_selected
LoadTextureThread(selected) == [Idle EXCEPT !.op = "load_texture_thread", !.pc = "start", !.selected = selected]

\* load_replacement_thread, created by browse_replacement_texture: file_path
\* is a local of the handler, bound when the thread is created
LoadReplacementThread(file_path, selected) == [Idle EXCEPT !.op = "load_replacement_thread", !.pc = "start", !.arg = file_path, !.selected = selected]

\* the image a loader returns: a preview, or the labelled placeholder of
\* create_format_preview, both drawn for the path that was loaded
LoadedImage(th) == [kind |-> IF th.ret.ok THEN "image" ELSE "format_preview", text |-> "", of |-> th.target]

Callback(fn, image, file_path) == [fn |-> fn, image |-> image, file_path |-> file_path]

\* the PC tree with two replacement containers of different byte length
UiPcvrTree == [PcvrTree(File(Pattern(256, 3)), File(Pattern(256, 100))) EXCEPT ![ReplacementPath(Name("new", "", ".img"))] = MadeFile(DefaultMade), ![ReplacementPath(Name("other", "", ".img"))] = MadeFile([DefaultMade EXCEPT !.four_cc = DX10, !.ext_len = DX10_HEADER_LEN, !.format_code = Big(0, 71)])]

\* the viewer after construction, with the events the session will see
InitViewer(replace_only) ==
    /\ is_quest_textures \in (IF replace_only THEN {FALSE} ELSE BOOLEAN)
    /\ fs = IF is_quest_textures THEN QuestTree(2, File(Pattern(256, 3)), File(Pattern(256, 100))) ELSE UiPcvrTree
    /\ mapping = IF is_quest_textures THEN [k \in {Stem(Rock), Stem(RockD)} |-> [width |-> 128, height |-> 64]] ELSE EmptyMap
    /\ astcenc_path = is_quest_textures
    /\ DECODE_CACHE = EmptyMap
    /\ current_texture = NoName
    /\ threads = NoThreads
    /\ after = <<>>
    /\ gui = IF replace_only THEN [NoGui EXCEPT !.budget = MaxReplaceEvents] ELSE [NoGui EXCEPT !.budget = MaxEvents]
    /\ result = NoResult
    /\ encoder = NoEncoder
    /\ dds_file = NoFile
    /\ dds_made = DefaultMade
    /\ dds_info = NotCalled
    /\ loads = <<>>
    /\ decoder = NoDecoder

InitUi == InitViewer(FALSE)

\* a session on the PC platform in which the user selects, browses and
\* replaces
InitReplace == InitViewer(TRUE)

\* on_texture_selected(event): the user picks a texture in the list
OnTextureSelected ==
    /\ MainIdle
    /\ gui.budget > 0
    /\ HasFreeWorker(threads)
    /\ \E name \in Names :
          /\ current_texture' = name
          /\ threads' = StartThread(threads, LoadTextureThread(name))
    /\ gui' = [gui EXCEPT !.budget = @ - 1, !.original_canvas = Placeholder("Loading texture...")]
    /\ UNCHANGED <<fs, DECODE_CACHE, mapping, astcenc_path, is_quest_textures, result, encoder, ddsVars, loadVars, after>>

\* a loader thread gets to run: load_texture_thread reads
\* self.current_texture and calls load_texture, which returns without an
\* external process (preview cache, direct open, a placeholder) or starts
\* one; load_replacement_thread loads its file_path, on the headset
\* platform with Image.open
LoaderRuns(t) ==
    /\ t \in Workers
    /\ threads[t].pc = "start"
    /\ \E route \in (IF is_quest_textures /\ threads[t].op = "load_replacement_thread" THEN {"none"} ELSE {"none", "process"}), ok \in BOOLEAN :
          LET th == [threads[t] EXCEPT !.target = IF threads[t].op = "load_texture_thread" THEN current_texture ELSE threads[t].arg]
          IN  threads' = [threads EXCEPT ![t] =
                  IF route = "none" THEN Return(th, ok, "")
                  ELSE IF is_quest_textures THEN [Goto(th, "astcenc_dl") EXCEPT !.output_ok = ok, !.n = MaxCandidates]
                  ELSE [Goto(th, "texconv") EXCEPT !.output_ok = ok]]
    /\ UNCHANGED <<stageVars, ddsVars, loadVars, after, gui>>

\* the headset search has another candidate to try
MoreCandidates(th) == th.op = "load_texture_thread" /\ th.pc = "return" /\ ~th.ret.ok /\ th.n > 1

\* decode_with_config returned False: the next candidate
NextCandidate(t) ==
    /\ t \in Workers
    /\ MoreCandidates(threads[t])
    /\ threads' = [threads EXCEPT ![t] = [Goto(threads[t], "astcenc_dl") EXCEPT !.n = @ - 1, !.ret = NoReturn]]
    /\ UNCHANGED <<stageVars, ddsVars, loadVars, after, gui>>

\* the callback a worker posts when its operation has returned
Posted(th) ==
    IF th.op = "load_texture_thread" THEN Callback("display_texture_result", LoadedImage(th), NoName)
    ELSE IF th.op = "load_replacement_thread" THEN (IF is_quest_textures /\ ~th.ret.ok THEN Callback("display_replacement_error", Placeholder(""), th.arg) ELSE Callback("display_replacement_result", LoadedImage(th), th.arg))
    ELSE Callback("on_quest_push_complete", Placeholder(""), NoName)

\* self.root.after(0, lambda: ...): the worker posts its callback and ends
WorkerPosts(t) ==
    /\ t \in Workers
    /\ threads[t].pc = "return"
    /\ ~MoreCandidates(threads[t])
    /\ after' = Append(after, Posted(threads[t]))
    /\ threads' = [threads EXCEPT ![t] = Idle]
    /\ UNCHANGED <<stageVars, ddsVars, loadVars, gui>>

\* self.original_info as display_texture_result sets it, with the texture
\* the information was read from
OriginalInfo == Found([texture |-> current_texture, info |-> IF is_quest_textures THEN Found([file_size |-> GetSize(fs, UiTexturePath(current_texture)), format |-> Text("ASTC")]) ELSE GetDdsInfo(fs[UiTexturePath(current_texture)])])

\* self.replacement_info as display_replacement_result sets it
ReplacementInfo(file_path) == IF is_quest_textures THEN Found([file_size |-> GetSize(fs, ReplacementPath(file_path)), format |-> Text("PNG")]) ELSE GetDdsInfo(fs[ReplacementPath(file_path)])

\* the main thread runs the oldest posted callback: display_texture_result,
\* display_replacement_result, display_replacement_error or
\* on_quest_push_complete
RunCallback ==
    /\ MainIdle
    /\ after # <<>>
    /\ after' = Tail(after)
    /\ gui' = IF Head(after).fn = "display_texture_result" THEN [gui EXCEPT !.original_canvas = Head(after).image, !.original_info = OriginalInfo]
              ELSE IF Head(after).fn = "display_replacement_result" THEN [gui EXCEPT !.replacement_canvas = Head(after).image, !.replacement_info = ReplacementInfo(Head(after).file_path)]
              ELSE IF Head(after).fn = "display_replacement_error" THEN [gui EXCEPT !.replacement_canvas = Placeholder("Error loading replacement")]
              ELSE gui
    /\ UNCHANGED <<stageVars, ddsVars, loadVars, threads>>

\* browse_replacement_texture(event): the user picks a file in the dialog
BrowseReplacementTexture ==
    /\ MainIdle
    /\ gui.budget > 0
    /\ current_texture # NoName
    /\ HasFreeWorker(threads)
    /\ \E file_path \in ReplacementNames :
          /\ gui' = [gui EXCEPT !.budget = @ - 1, !.replacement_texture = file_path]
          /\ threads' = StartThread(threads, LoadReplacementThread(file_path, current_texture))
    /\ UNCHANGED <<stageVars, ddsVars, loadVars, after>>

\* what the stage call leaves in `result`
Staged(op, size, out, ret) == [op |-> op, texture |-> current_texture, replacement |-> gui.replacement_texture, size |-> size, out |-> out, ok |-> ret.ok, msg |-> ret.msg]

\* the tail of replace_texture: on success self.on_texture_selected(None),
\* which starts a loader for the texture still selected in the list
AfterReplace(ok) ==
    /\ threads' = IF ok THEN StartThread([threads EXCEPT !["main"] = Idle], LoadTextureThread(current_texture)) ELSE [threads EXCEPT !["main"] = Idle]
    /\ gui' = [gui EXCEPT !.budget = IF MainIdle THEN @ - 1 ELSE @, !.original_canvas = IF ok THEN Placeholder("Loading texture...") ELSE @]

\* what the encoder left, as replace_quest_texture sees it
EncoderOut(th) == IF th.ret.msg = "zero" THEN [kind |-> "ok", header |-> th.output_ok, len |-> MaxEncLen] ELSE IF th.ret.msg = "timeout" THEN [kind |-> "timeout", header |-> FALSE, len |-> 0] ELSE [kind |-> "error", header |-> FALSE, len |-> 0]

\* replace_quest_texture as called by replace_texture, the encoder doing out
UiReplaceQuest(out) == ReplaceQuestTexture(fs, DECODE_CACHE, mapping, astcenc_path, OutputFolder, QuestInputFolder, UiTexturePath(current_texture), ReplacementPath(gui.replacement_texture), out)

\* replace_texture(): the PC branch stages at once with the size found in
\* self.replacement_info; the headset branch calls replace_quest_texture,
\* which runs the encoder
ReplaceTexture ==
    /\ MainIdle
    /\ gui.budget > 0
    /\ current_texture # NoName
    /\ gui.replacement_texture # NoName
    /\ HasFreeWorker(threads)
    /\ IF ~is_quest_textures
       THEN IF gui.replacement_info.found
            THEN \E ret \in {ReplacePcvrTexture(fs, OutputFolder, PcvrInputFolder, UiTexturePath(current_texture), ReplacementPath(gui.replacement_texture), FromNat(gui.replacement_info.value.file_size))} :
                    /\ fs' = ret.fs
                    /\ result' = Staged("pcvr", FromNat(gui.replacement_info.value.file_size), NoResult.out, ret)
                    /\ encoder' = ret.enc
                    /\ AfterReplace(ret.ok)
            ELSE /\ gui' = [gui EXCEPT !.budget = @ - 1]
                 /\ UNCHANGED <<fs, result, encoder, threads>>
       ELSE IF UiReplaceQuest(NoResult.out).enc.invoked
            THEN /\ \E output_ok \in BOOLEAN : threads' = [threads EXCEPT !["main"] = [Goto([Idle EXCEPT !.op = "replace_texture"], "astcenc_cl") EXCEPT !.output_ok = output_ok]]
                 /\ gui' = [gui EXCEPT !.budget = @ - 1]
                 /\ UNCHANGED <<fs, result, encoder>>
            ELSE \E ret \in {UiReplaceQuest(NoResult.out)} :
                    /\ fs' = ret.fs
                    /\ result' = Staged("quest", Big(0, 0), NoResult.out, ret)
                    /\ encoder' = ret.enc
                    /\ AfterReplace(ret.ok)
    /\ UNCHANGED <<DECODE_CACHE, mapping, astcenc_path, is_quest_textures, current_texture, ddsVars, loadVars, after>>

\* push_to_quest(): ADBManager.check_adb() is called in the handler
PushToQuest ==
    /\ MainIdle
    /\ gui.budget > 0
    /\ gui.pushes < MaxPushes
    /\ HasFreeWorker(threads)
    /\ \E n \in UiDevices, present \in BOOLEAN : threads' = [threads EXCEPT !["main"] = Start("check_adb", n, present, FALSE)]
    /\ gui' = [gui EXCEPT !.budget = @ - 1, !.pushes = @ + 1]
    /\ UNCHANGED <<stageVars, ddsVars, loadVars, after>>

\* the operation the main thread called has returned: replace_texture
\* stages what the encoder left; push_to_quest shows the error, or asks and
\* starts push_thread
MainContinues ==
    /\ threads["main"].pc = "return"
    /\ IF threads["main"].op = "replace_texture"
       THEN \E ret \in {UiReplaceQuest(EncoderOut(threads["main"]))} :
               /\ fs' = ret.fs
               /\ result' = Staged("quest", Big(0, 0), EncoderOut(threads["main"]), ret)
               /\ encoder' = ret.enc
               /\ AfterReplace(ret.ok)
       ELSE /\ \/ threads' = [threads EXCEPT !["main"] = Idle]
               \/ /\ threads["main"].ret.ok
                  /\ threads' = StartThread([threads EXCEPT !["main"] = Idle], Start("push_to_quest", threads["main"].n, TRUE, FALSE))
            /\ UNCHANGED <<fs, result, encoder, gui>>
    /\ UNCHANGED <<DECODE_CACHE, mapping, astcenc_path, is_quest_textures, current_texture, ddsVars, loadVars, after>>

NextUi ==
    \/ OnTextureSelected
    \/ BrowseReplacementTexture
    \/ ReplaceTexture
    \/ PushToQuest
    \/ MainContinues
    \/ RunCallback
    \/ \E t \in ThreadIds : LoaderRuns(t) \/ NextCandidate(t) \/ WorkerPosts(t) \/ Launch(t) \/ ProcessExits(t) \/ TimeoutExpired(t)

SpecUi == InitUi /\ [][NextUi]_vars

NextReplace ==
    \/ OnTextureSelected
    \/ BrowseReplacementTexture
    \/ ReplaceTexture
    \/ RunCallback
    \/ \E t \in ThreadIds : LoaderRuns(t) \/ WorkerPosts(t) \/ Launch(t) \/ ProcessExits(t)

SpecReplace == InitReplace /\ [][NextReplace]_vars

-----------------------------------------------------------------------------
(* The viewer's threads and what the canvases show.                        *)

\* C25: the main thread never waits on an external process: every
\* external process, those of replace_texture and push_to_quest included,
\* is run by a worker thread.
C25_MainThreadNeverWaits == threads["main"].proc.state # "running"

\* the handler in which the main thread waits
C25_WaitsInReplace == threads["main"].op = "replace_texture" /\ threads["main"].proc.state = "running"
C25_WaitsInPush == threads["main"].op = "check_adb" /\ threads["main"].proc.state = "running"

\* a worker is inside load_texture for the texture it read
InFlight(t) == threads[t].op = "load_texture_thread" /\ threads[t].pc \in LaunchPcs

\* C26: no two load_texture workers are in flight for the same texture.
C26_OneLoadPerTexture == \A a, b \in Workers : (a # b /\ InFlight(a) /\ InFlight(b)) => threads[a].target # threads[b].target

\* C27: on the PC platform the size written into the staged descriptor is
\* the byte length of the replacement file that was copied.
C27_SizeOfCopiedFile == (result.op = "pcvr" /\ result.ok) => (StagedTexture.exists /\ StagedDescriptor.exists /\ SizeFieldIs(StagedDescriptor.data, FromNat(GetSize(fs, ReplacementPath(result.replacement)))))

\* the copy itself is the selected replacement
C27_CopiedSelected == (result.op = "pcvr" /\ result.ok) => StagedTexture = fs[ReplacementPath(result.replacement)]

\* no loader is running and no callback is pending
Quiescent == MainIdle /\ after = <<>> /\ \A t \in Workers : threads[t].op \notin {"load_texture_thread", "load_replacement_thread"}

\* C28: once all load workers have completed, the preview on the canvas
\* and original_info belong to current_texture.
C28_DisplayOfSelection == (Quiescent /\ gui.original_canvas.of # NoName) => (gui.original_canvas.of = current_texture /\ gui.original_info.found /\ gui.original_info.value.texture = current_texture)

\* C28, second part: each worker decodes the texture that was selected when
\* it was started.
C28_WorkerDecodesItsSelection == \A t \in Workers : (threads[t].op = "load_texture_thread" /\ threads[t].target # NoName) => threads[t].target = threads[t].selected

-----------------------------------------------------------------------------
(* The preview cache across files: the selected texture and a replacement  *)
(* the user picked, both loaded with load_texture on the PC platform.      *)

\* the file the user picked: in another folder, with the base name of the
\* selected texture
UserTexture == Path(UserFolder, Name(RockD.base, RockD.suffix, ".dds"))

\* the files the user may have picked: containers of the DXT1 and of the
\* extended family, with pixel data of their own
UserTextureFiles == {File(DDS_MAGIC \o DdsHeader(DefaultMade) \o Pattern(8, 50)), File(DDS_MAGIC \o DdsHeader([DefaultMade EXCEPT !.four_cc = DX10, !.format_code = Big(0, 71)]) \o Dx10Header([DefaultMade EXCEPT !.four_cc = DX10, !.format_code = Big(0, 71)]) \o Pattern(8, 50))}

\* a fresh installation: no preview has been cached yet
InitCache ==
    /\ is_quest_textures = FALSE
    /\ current_texture = RockD
    /\ \E t \in PcTextureFiles, u \in UserTextureFiles, x \in {NoFile, File(<<77, 90>>)} :
          fs = [p \in LoadPaths \cup {UserTexture} |-> IF p = TexturePath THEN t ELSE IF p = UserTexture THEN u ELSE IF p = TexconvExe THEN x ELSE NoFile]
    /\ mapping = EmptyMap
    /\ astcenc_path = FALSE
    /\ decoder = NoDecoder
    /\ DECODE_CACHE = EmptyMap
    /\ loads = <<>>
    /\ threads = NoThreads
    /\ after = <<>>
    /\ gui = NoGui
    /\ result = NoResult
    /\ encoder = NoEncoder
    /\ dds_file = NoFile
    /\ dds_made = DefaultMade
    /\ dds_info = NotCalled

\* load_texture(file_path, False) of load_replacement_thread
LoadReplacementPcvr ==
    /\ ~is_quest_textures
    /\ \E env \in PcvrEnvs :
          \E r \in {LoadTexture(fs, DECODE_CACHE, mapping, astcenc_path, UserTexture, FALSE, decoder, env)} :
              /\ fs' = r.fs
              /\ DECODE_CACHE' = r.cache
              /\ loads' = Window(loads, [texture |-> UserTexture, is_quest |-> FALSE, found |-> fs[GetCachePath(UserTexture)], trace |-> r.trace, img |-> r.img, cached |-> r.fs[GetCachePath(UserTexture)]])
    /\ UNCHANGED <<mapping, astcenc_path, is_quest_textures, current_texture, result, encoder, ddsVars, decoder, uiVars>>

NextCache == LoadTexturePcvr \/ LoadReplacementPcvr

SpecCache == InitCache /\ [][NextCache]_vars

\* the pixel data a decode of a file can yield: what follows the header
\* (direct open), what follows the extension block (converter), the whole
\* of a headerless file (converter on the synthesized container)
PixelsOf(file) == {Slice(file.data, 4 + DDS_HEADER_LEN, Len(file.data)), Slice(file.data, 4 + DDS_HEADER_LEN + DX10_HEADER_LEN, Len(file.data)), file.data}

\* C29: an image that load_texture(path) returns from the preview cache was
\* decoded from the file at that same path.
C29_CachedPreviewOfSamePath == (loads # <<>> /\ Last.trace[1].outcome = "hit") => Last.img.pixels \in PixelsOf(fs[Last.texture])

\* the two files have one cache path
C29_SharedCachePath == GetCachePath(UserTexture) = GetCachePath(TexturePath)

\* C30: whenever load_texture has returned a decoded image for a headset
\* texture, from a search or from the preview cache, the memo has an entry
\* for the texture's base name.
C30_MemoAfterPreview == (loads # <<>> /\ Last.is_quest /\ Last.img.kind = "image") => Stem(current_texture) \in DOMAIN DECODE_CACHE

\* the same for a preview that came from a search of this call
C30_MemoAfterSearch == (QuestDecoded /\ Last.img.kind = "image") => Stem(current_texture) \in DOMAIN DECODE_CACHE

\* a preview served from the cache, the memo without an entry
C30_WitnessCachedNoMemo == loads # <<>> /\ Last.is_quest /\ Last.trace[1].outcome = "hit" /\ Stem(current_texture) \notin DOMAIN DECODE_CACHE

====
